---------------------------- MODULE Spec2Model ----------------------------
(***************************************************************************)
(* Graduation-event ingestion and enrichment pipeline of the Solana Pool   *)
(* Tracker: the standalone server (server.js), the legacy connect function *)
(* (pumpportal-integration.js) and the Durable Object (pumpportal-do.js).  *)
(*                                                                         *)
(* Encoding of JavaScript values.  A numeric or opaque field holds a       *)
(* natural number; 0 stands for every falsy value the code cannot tell     *)
(* apart (undefined, null, '', 0), a positive number for a present value.  *)
(* A string field with a fixed vocabulary (txType, pool, dexId) holds a    *)
(* string, "none" standing for an absent one.                              *)
(***************************************************************************)
EXTENDS Naturals, Sequences, FiniteSets

(***************************** bounds **************************************)
\* records one behaviour of the pipeline creates
MaxGraduates == 2
\* message handlers suspended at an await at the same time
MaxInFlight == 2

(************************* program constants *******************************)
MAX_RECONNECT_ATTEMPTS == 5
\* the value of `new Date().toISOString()` taken when a message has no timestamp
IngestTime == 9

(***************************** JS helpers **********************************)
Truthy(x) == x # 0

\* a || b on the numeric encoding
Or(a, b) == IF Truthy(a) THEN a ELSE b

\* string concatenation  mint + (timestamp || '')  on the decimal encoding:
\* a present timestamp is one digit appended to the mint
KeyOf(mint, timestamp) ==
  IF Truthy(timestamp) THEN mint * 10 + timestamp ELSE mint

Min(S) == CHOOSE x \in S : \A y \in S : x <= y


TruthyS(s) == s # "none"

OrS(a, b) == IF TruthyS(a) THEN a ELSE b

(************************ market-data lookups ******************************)
\* A trading pair of a Dexscreener response, with the fields the code reads;
\* volume stands for the six trading statistics of a pair (volume, txns and
\* priceChange over h1 and h24), which every lookup copies together into
\* volume24h ... priceChange1h.
DexIds == {"pumpfun", "raydium", "none"}

Pairs ==
  [dexId : DexIds, pairCreatedAt : {0, 1, 2}, priceUsd : {0, 3},
   marketCap : {0, 7}, symbol : {4}, volume : {5}]

\* the lookup answers no data: fetchDexscreenerData returns null
NoData ==
  [ok |-> FALSE, graduationDex |-> "none", graduatedAt |-> 0,
   volume24h |-> 0, marketCap |-> 0, priceUsdCurrent |-> 0]

Indices(pairs, T(_)) == {i \in 1..Len(pairs) : T(pairs[i])}

IsGraduatedPair(pair) == pair.dexId # "pumpfun"

\* pairs.filter(pair => pair.dexId !== 'pumpfun')
graduatedPairs(pairs) == SelectSeq(pairs, IsGraduatedPair)

\* The pairs  sorted[0]  can be after
\* sort((a, b) => a.pairCreatedAt - b.pairCreatedAt): the first pair of least
\* pairCreatedAt (the sort is stable); with a pairCreatedAt missing the
\* comparator yields NaN, the order is implementation-defined and any pair
\* may come first.
SortedFirst(ps) ==
  IF Len(ps) = 1 THEN {ps[1]}
  ELSE IF \E i \in 1..Len(ps) : ps[i].pairCreatedAt = 0
       THEN {ps[i] : i \in 1..Len(ps)}
       ELSE LET least == Min({ps[i].pairCreatedAt : i \in 1..Len(ps)})
                first == Min({i \in 1..Len(ps) : ps[i].pairCreatedAt = least})
            IN  {ps[first]}

\* a selection that takes the first pair whatever its venue
targetPair_first(pairs) == IF Len(pairs) = 0 THEN {} ELSE {pairs[1]}

\* The pairs fetchDexscreenerData may take as targetPair (none for no pairs).
targetPair(pairs) ==
  IF Len(pairs) = 0 THEN {}
  ELSE IF Len(graduatedPairs(pairs)) > 0
       THEN SortedFirst(graduatedPairs(pairs))
       ELSE {pairs[1]}

\* The object built from targetPair.  pairCreatedAt 0 is an absent field:
\* new Date(undefined).toISOString() throws and the function's catch turns
\* that into null.
DexDataOf(pair) ==
  IF pair.pairCreatedAt = 0 THEN NoData
  ELSE [ok |-> TRUE, graduationDex |-> pair.dexId,
        graduatedAt |-> pair.pairCreatedAt,
        volume24h |-> Or(pair.volume, 0),
        marketCap |-> Or(pair.marketCap, 0),
        priceUsdCurrent |-> Or(pair.priceUsd, 0)]

\* A lookup's answer: the pairs of the response, or a failed request.
\* fetchDexscreenerData never throws: every failure yields null.
fetchDexscreenerData(answer) ==
  IF answer.failed \/ Len(answer.pairs) = 0 THEN {NoData}
  ELSE {DexDataOf(p) : p \in targetPair(answer.pairs)}

\* data.pairs.find(pair => pair.dexId !== 'pumpfun') || data.pairs[0]
graduatedPair(pairs) ==
  IF Indices(pairs, IsGraduatedPair) # {}
  THEN pairs[Min(Indices(pairs, IsGraduatedPair))]
  ELSE pairs[1]

(***************************** feed messages *******************************)
\* A payload the feed delivers: valid is whether JSON.parse accepts it, the
\* other fields are those of the decoded message.
Message(valid, txType, mint, pool, timestamp, marketCap) ==
  [valid |-> valid, txType |-> txType, mint |-> mint, pool |-> pool,
   timestamp |-> timestamp, symbol |-> 0, marketCap |-> marketCap,
   priceUsd |-> 0]

NoMessage == Message(FALSE, "none", 0, "none", 0, 0)

\* another payload with the mint and timestamp of message
Twin(message) == [message EXCEPT !.marketCap = 7]

\* every shape of payload, for the classifier
FeedMessages ==
  {Message(v, t, m, p, ts, 0) :
     v \in BOOLEAN, t \in {"migrate", "create", "none"}, m \in {0, 1, 2},
     p \in {"pump-amm", "raydium", "none"}, ts \in {0, 1}}

\* the payloads the pipeline is run on: graduations of two mints, with and
\* without a timestamp and a market cap, and payloads that are none
PipelineMessages ==
  {Message(TRUE, "migrate", m, "pump-amm", ts, 0) : m \in {1, 2}, ts \in {0, 1}}
    \cup {Message(TRUE, "migrate", 1, "pump-amm", 0, 7),
          Message(TRUE, "migrate", 1, "raydium", 0, 0),
          Message(TRUE, "create", 1, "pump-amm", 0, 0),
          Message(FALSE, "migrate", 1, "pump-amm", 0, 0)}

\* a classifier that does not look at the pool
IsGraduation_anyPool(message) ==
  message.txType = "migrate" /\ Truthy(message.mint)

\* message.txType === 'migrate' && message.mint && message.pool === 'pump-amm'
IsGraduation(message) ==
  message.txType = "migrate" /\ Truthy(message.mint) /\ message.pool = "pump-amm"

\* message.txType === 'create' && message.mint   (pumpportal-integration.js)
IsNewToken(message) ==
  message.txType = "create" /\ Truthy(message.mint)

\* the answers of the market-data source the pipeline is run on
Answers ==
  LET P(d, c, p, m) == [dexId |-> d, pairCreatedAt |-> c, priceUsd |-> p,
                         marketCap |-> m, symbol |-> 4, volume |-> 5]
  IN  {[failed |-> TRUE, pairs |-> <<>>],
       [failed |-> FALSE, pairs |-> <<>>],
       [failed |-> FALSE, pairs |-> <<P("raydium", 2, 3, 7)>>],
       [failed |-> FALSE, pairs |-> <<P("raydium", 2, 3, 0)>>],
       [failed |-> FALSE, pairs |-> <<P("raydium", 2, 0, 7)>>],
       [failed |-> FALSE, pairs |-> <<P("raydium", 2, 0, 0)>>],
       [failed |-> FALSE, pairs |-> <<P("raydium", 0, 3, 7)>>],
       [failed |-> FALSE, pairs |-> <<P("pumpfun", 1, 3, 7)>>],
       [failed |-> FALSE, pairs |-> <<P("pumpfun", 1, 3, 7), P("raydium", 2, 0, 0)>>]}

(******************************* state *************************************)
VARIABLES
  deployment,                  \* which program runs: "server", "integration", "worker"
  probe,                       \* the payload a classifier run delivers
  delivered,                   \* how many times it has been delivered
  lookup,                      \* the pairs of a lookup response given to pair selection
  selected,                    \* the pairs server and Durable Object selected from it
  \* server.js / pumpportal-integration.js
  listening,                   \* the app.listen callback has run
  pumpPortalWs,                \* the socket pumpPortalWs refers to
  pumpPortalConnected,
  pumpPortalReconnectAttempts,
  reconnectTimer,              \* delay (s) of the pending reconnect timer, 0 for none
  scheduledDelays,             \* delays of the reconnects scheduled since the last open
  seenGraduations,
  objs,                        \* the graduateData objects, by creation
  graduatedTokens,             \* the store: references into objs, newest first
  awaiting,                    \* message handlers suspended at their await
  task,                        \* per object, where its enrichment chain stands
  notified,                    \* per object, calls of sendTelegramNotification
  clients,                     \* per subscriber, its stream
  moralisSSEClients,           \* the registry of graduate subscribers
  detectedPools,
  processedSignatures,
  sseClients,                  \* registered pool subscribers
  poolFeed,                    \* the type of the last event written to them
  fetching,                    \* pools whose fetchTokenData has not answered
  cleared,                     \* /api/data/clear has run and nothing was ingested since
  \* pumpportal-do.js
  initialized,
  websocket,                   \* the socket this.websocket refers to, 0 for null
  connected,
  keepAliveInterval,           \* the socket whose interval this.keepAliveInterval holds
  sockets,                     \* every feed socket the object has created
  calls,                       \* requests suspended at await connectToPumpPortal()
  storage,                     \* the persisted 'graduatedTokens' blob
  response,                    \* the last response the object gave
  row,                         \* the run of consecutive /connect requests so far
  \* index.js
  request,                     \* the public path requested in the last step, if any
  updated                      \* the payload handleUpdateGraduates took in the last step

constVars == <<deployment, probe, lookup>>

envVars == <<constVars, delivered, selected>>

srvVars ==
  <<listening, pumpPortalWs, pumpPortalConnected, pumpPortalReconnectAttempts,
    reconnectTimer, scheduledDelays>>

pipeVars == <<seenGraduations, objs, graduatedTokens, awaiting, task, notified>>

fanVars == <<clients, moralisSSEClients>>

poolVars ==
  <<detectedPools, processedSignatures, sseClients, poolFeed, fetching, cleared>>

wrkVars ==
  <<initialized, websocket, connected, keepAliveInterval, sockets, calls, storage,
    response, row, request, updated>>

vars == <<envVars, srvVars, pipeVars, fanVars, poolVars, wrkVars>>

(***************************** fan-out **************************************)
ClientIds == {1, 2}

NoEvent == [type |-> "none", data |-> <<>>]

\* a subscriber that has not connected yet; gone is whether it has
\* disconnected, so that a send to its stream fails, failed whether a send to
\* it has failed, ping whether its 30 s ping interval is active
NoClient ==
  [used |-> FALSE, first |-> NoEvent, last |-> "none", afterClear |-> FALSE,
   gone |-> FALSE, failed |-> FALSE, ping |-> FALSE]

\* one write of an event to a subscriber's stream; first keeps the first
\* event the stream carried, last the type of the latest; the write to the
\* stream of a subscriber that is gone throws
Written(client, event) ==
  IF client.gone THEN [client EXCEPT !.failed = TRUE]
  ELSE [client EXCEPT !.first = IF @ = NoEvent THEN event ELSE @,
                      !.last = event.type]

\* broadcastToMoralisSSE(data): the event goes to every registered client
broadcastToMoralisSSE(cs, registry, id) ==
  [c \in ClientIds |->
     IF c \in registry
     THEN Written(cs[c], [type |-> "newGraduate", data |-> <<id>>])
     ELSE cs[c]]

\* GET /moralis/events: register, then write the whole store as the snapshot
MoralisSubscribe(c) ==
  /\ deployment \in {"server", "integration"}
  /\ ~clients[c].used
  /\ \A d \in ClientIds : d < c => clients[d].used
  /\ moralisSSEClients' = moralisSSEClients \cup {c}
  /\ clients' = [clients EXCEPT
                   ![c] = Written([NoClient EXCEPT !.used = TRUE, !.afterClear = cleared],
                                  [type |-> "graduates", data |-> graduatedTokens])]
  /\ UNCHANGED <<envVars, srvVars, pipeVars, poolVars, wrkVars>>

\* a subscriber disconnects: from now on a send to its stream fails
ClientGone(c) ==
  /\ clients[c].first # NoEvent
  /\ ~clients[c].gone
  /\ clients' = [clients EXCEPT ![c].gone = TRUE]
  /\ UNCHANGED <<envVars, srvVars, pipeVars, moralisSSEClients, poolVars, wrkVars>>

\* req.on('close'): the client leaves the registry
MoralisClose(c) ==
  /\ deployment \in {"server", "integration"}
  /\ c \in moralisSSEClients
  /\ moralisSSEClients' = moralisSSEClients \ {c}
  /\ UNCHANGED <<envVars, srvVars, pipeVars, clients, poolVars, wrkVars>>

(************************ server: feed connection **************************)
NoSocket == [st |-> "none", subscribes |-> <<>>]

\* the method of the subscribe message the open handler sends
subscribeMessage(d) ==
  IF d = "integration" THEN "subscribeNewToken" ELSE "subscribeMigration"

\* a delay that grows linearly
ReconnectDelay_linear(attempts) == 2 * attempts

\* Math.pow(2, pumpPortalReconnectAttempts) * 1000, in seconds
ReconnectDelay(attempts) == 2 ^ attempts

\* connectToPumpPortal(): the socket pumpPortalWs refers to afterwards
connectToPumpPortal(ws) ==
  IF ws.st = "open" THEN ws ELSE [st |-> "connecting", subscribes |-> <<>>]

\* app.listen callback
SrvListen ==
  /\ deployment \in {"server", "integration"}
  /\ ~listening
  /\ listening' = TRUE
  /\ pumpPortalWs' = connectToPumpPortal(pumpPortalWs)
  /\ UNCHANGED <<envVars, pumpPortalConnected, pumpPortalReconnectAttempts,
                 reconnectTimer, scheduledDelays, pipeVars, fanVars, poolVars, wrkVars>>

\* an open handler that leaves the attempt counter as it is
SrvOpen_keepsCount ==
  /\ deployment \in {"server", "integration"}
  /\ pumpPortalWs.st = "connecting"
  /\ pumpPortalConnected' = TRUE
  /\ pumpPortalWs' = [st |-> "open",
                      subscribes |-> Append(pumpPortalWs.subscribes,
                                            subscribeMessage(deployment))]
  /\ scheduledDelays' = <<>>
  /\ UNCHANGED <<envVars, listening, pumpPortalReconnectAttempts, reconnectTimer,
                 pipeVars, fanVars, poolVars, wrkVars>>

\* pumpPortalWs.on('open')
SrvOpen ==
  /\ deployment \in {"server", "integration"}
  /\ pumpPortalWs.st = "connecting"
  /\ pumpPortalConnected' = TRUE
  /\ pumpPortalReconnectAttempts' = 0
  /\ pumpPortalWs' = [st |-> "open",
                      subscribes |-> Append(pumpPortalWs.subscribes,
                                            subscribeMessage(deployment))]
  /\ scheduledDelays' = <<>>
  /\ UNCHANGED <<envVars, listening, reconnectTimer, pipeVars, fanVars,
                 poolVars, wrkVars>>

\* pumpPortalWs.on('error'); the socket emits close next
SrvError ==
  /\ deployment \in {"server", "integration"}
  /\ pumpPortalWs.st \in {"connecting", "open"}
  /\ pumpPortalConnected' = FALSE
  /\ pumpPortalWs' = [pumpPortalWs EXCEPT !.st = "errored"]
  /\ UNCHANGED <<envVars, listening, pumpPortalReconnectAttempts,
                 reconnectTimer, scheduledDelays, pipeVars, fanVars, poolVars, wrkVars>>

\* whether the close handler schedules a reconnect
MayReconnect(attempts) == attempts < MAX_RECONNECT_ATTEMPTS

\* pumpPortalWs.on('close')
SrvClose ==
  /\ deployment \in {"server", "integration"}
  /\ pumpPortalWs.st \in {"connecting", "open", "errored"}
  /\ pumpPortalConnected' = FALSE
  /\ pumpPortalWs' = [pumpPortalWs EXCEPT !.st = "closed"]
  /\ IF MayReconnect(pumpPortalReconnectAttempts)
     THEN /\ pumpPortalReconnectAttempts' = pumpPortalReconnectAttempts + 1
          /\ reconnectTimer' = ReconnectDelay(pumpPortalReconnectAttempts')
          /\ scheduledDelays' = Append(scheduledDelays, reconnectTimer')
     ELSE UNCHANGED <<pumpPortalReconnectAttempts, reconnectTimer, scheduledDelays>>
  /\ UNCHANGED <<envVars, listening, pipeVars, fanVars, poolVars, wrkVars>>

\* the reconnect timer fires: connectToPumpPortal()
SrvReconnect ==
  /\ deployment \in {"server", "integration"}
  /\ reconnectTimer # 0
  /\ reconnectTimer' = 0
  /\ pumpPortalWs' = connectToPumpPortal(pumpPortalWs)
  /\ UNCHANGED <<envVars, listening, pumpPortalConnected,
                 pumpPortalReconnectAttempts, scheduledDelays, pipeVars, fanVars,
                 poolVars, wrkVars>>

(************************ server: ingestion ********************************)
\* where the chain of a new record stands; zeroFirst and gotFull record what
\* its lookups answered: zero pairs to the first, and to a retry a target pair
\* that carries both priceUsd and marketCap; exhausted is whether the chain
\* had used up its retries (the one of the 10 s timer, or the maxRetries of
\* retryFetch) when it called sendTelegramNotification; timers are the
\* delays (s) of the setTimeout calls made for the record, in order, and
\* lookups counts its enrichment lookups; firstOk is whether the
\* first of them returned an object, lastPrice the priceUsdCurrent of what
\* the last retry returned (0 for null or none); lastFailed is whether the
\* request of the last lookup made for the record failed (the metadata
\* lookup included); refresh is the refresh that has the record's lookup
\* still to make ("manual" for the endpoint, "auto" for the interval), swept
\* whether a lookup of the interval has been assigned to the record; flying
\* holds the callbacks suspended at  await fetchDexscreenerData(...)  for the
\* record: "chain" for a timer of its own chain (or the lookup a manual add
\* starts with the insert), "refresh" for a refresh; sink is what became of
\* the record's notification ("none" while that is open)
NewTask(pc) ==
  [pc |-> pc, retryCount |-> 0, zeroFirst |-> FALSE, gotFull |-> FALSE,
   exhausted |-> FALSE, timers |-> <<>>, lookups |-> 0, firstOk |-> FALSE,
   lastPrice |-> 0, lastFailed |-> FALSE, refresh |-> "none", swept |-> FALSE,
   flying |-> {}, sink |-> "none"]

\* the store keeps the 100 newest graduates
MAX_GRADUATES == 100

\* an insert at the end of the store
Unshift_push(store, id) == Append(store, id)

\* an insert that never drops a record
Unshift_uncapped(store, id) == <<id>> \o store

\* graduatedTokens.unshift(graduateData); splice(100) when longer than 100
Unshift(store, id) ==
  LET grown == <<id>> \o store
  IN  IF Len(grown) > MAX_GRADUATES THEN SubSeq(grown, 1, MAX_GRADUATES) ELSE grown

\* seenGraduations.has(key)
Seen(seen, key) == key \in seen

\* a handler that does not mark the key
MarkSeen_forgets(seen, key) == seen

\* seenGraduations.add(key), before the handler's first await
MarkSeen(seen, key) == seen \cup {key}

\* the symbol of the first pair of the metadata lookup, when it has one
MetadataSymbol(answer) ==
  IF ~answer.failed /\ Len(answer.pairs) > 0 THEN answer.pairs[1].symbol ELSE 0

\* the graduateData object the server builds from a message; key is not a
\* field of it: it records the seen-set key the message was admitted under
GraduateData(message, answer) ==
  [key |-> KeyOf(message.mint, message.timestamp),
   mint |-> message.mint,
   symbol |-> Or(Or(message.symbol, MetadataSymbol(answer)), 0),
   graduatedAt |-> Or(message.timestamp, IngestTime),
   graduationDex |-> "raydium",
   volume24h |-> 0,
   marketCap |-> Or(message.marketCap, 0),
   priceUsdCurrent |-> Or(message.priceUsd, 0)]

\* deliveries of the probe payload so far, this one included
Delivered(message) ==
  IF message \in {probe, Twin(probe)} THEN delivered + 1 ELSE delivered

\* a listener that takes the next message only when no handler is suspended
Room_oneAtATime(limit, inflight) ==
  Len(objs) + Len(awaiting) < limit /\ Len(awaiting) = 0

\* the feed has room for one more graduation within the bounds
Room(limit, inflight) ==
  Len(objs) + Len(awaiting) < limit /\ Len(awaiting) < inflight

\* pumpPortalWs.on('message'), up to its first await: decode, classify, pass
\* the seen-set gate and start the metadata lookup
SrvOnMessage(message, limit, inflight) ==
  /\ deployment = "server"
  /\ pumpPortalWs.st = "open"
  /\ IF message.valid /\ IsGraduation(message)
        /\ ~Seen(seenGraduations, KeyOf(message.mint, message.timestamp))
     THEN /\ Room(limit, inflight)
          /\ seenGraduations' =
               MarkSeen(seenGraduations, KeyOf(message.mint, message.timestamp))
          /\ awaiting' = Append(awaiting, message)
     ELSE UNCHANGED <<seenGraduations, awaiting>>
  /\ delivered' = Delivered(message)
  /\ UNCHANGED <<constVars, selected, srvVars, objs, graduatedTokens, task, notified,
                 fanVars, poolVars, wrkVars>>

Remove(seq, i) == SubSeq(seq, 1, i - 1) \o SubSeq(seq, i + 1, Len(seq))

\* the same handler after the metadata lookup has answered: build the
\* object, put it into the store, broadcast it and start the 8 s timer
SrvAfterMetadata(i, answer) ==
  /\ deployment = "server"
  /\ i \in 1..Len(awaiting)
  /\ LET id == Len(objs) + 1
     IN  /\ objs' = Append(objs, GraduateData(awaiting[i], answer))
         /\ graduatedTokens' = Unshift(graduatedTokens, id)
         /\ clients' = broadcastToMoralisSSE(clients, moralisSSEClients, id)
         /\ task' = Append(task, [NewTask("wait8") EXCEPT !.timers = <<8>>,
                                                         !.lastFailed = answer.failed])
         /\ notified' = Append(notified, 0)
  /\ awaiting' = Remove(awaiting, i)
  /\ cleared' = FALSE
  /\ UNCHANGED <<envVars, srvVars, seenGraduations, moralisSSEClients,
                 detectedPools, processedSignatures, sseClients, poolFeed, fetching,
                 wrkVars>>

(************************ server: enrichment *******************************)
\* const maxRetries = 3
maxRetries == 3

\* Object.assign(graduateData, {...}) of the first lookup: venue, market cap
\* and price fall back to what the object holds
Enhanced(g, dexData) ==
  [g EXCEPT !.graduationDex = OrS(dexData.graduationDex, g.graduationDex),
            !.volume24h = dexData.volume24h,
            !.marketCap = Or(dexData.marketCap, g.marketCap),
            !.priceUsdCurrent = Or(dexData.priceUsdCurrent, g.priceUsdCurrent)]

\* Object.assign(graduateData, retryDexData): every field of the lookup
\* overwrites the object's
Assigned(g, dexData) ==
  [g EXCEPT !.graduationDex = dexData.graduationDex,
            !.graduatedAt = dexData.graduatedAt,
            !.volume24h = dexData.volume24h,
            !.marketCap = dexData.marketCap,
            !.priceUsdCurrent = dexData.priceUsdCurrent]

\* a confirmation that looks at the price only
Confirmed_priceOnly(g) == Truthy(g.priceUsdCurrent)

\* graduateData.priceUsdCurrent && graduateData.marketCap
Confirmed(g) == Truthy(g.priceUsdCurrent) /\ Truthy(g.marketCap)

\* a retry that counts only an object with a price and a market cap
RetrySucceeded_both(dexData) ==
  dexData.ok /\ Truthy(dexData.priceUsdCurrent) /\ Truthy(dexData.marketCap)

\* retryDexData && retryDexData.priceUsdCurrent
RetrySucceeded(dexData) == dexData.ok /\ Truthy(dexData.priceUsdCurrent)

\* the response of a lookup holds no pair
ZeroPairs(answer) == ~answer.failed /\ Len(answer.pairs) = 0

\* the pair a lookup takes from the response carries priceUsd and marketCap
CarriesBoth(answer) ==
  /\ ~answer.failed
  /\ \E pair \in targetPair(answer.pairs) :
       Truthy(pair.priceUsd) /\ Truthy(pair.marketCap)

\* sendTelegramNotification(graduateData) is called for object id
Notify(id) == notified' = [notified EXCEPT ![id] = @ + 1]

\* the 8 s timer of object id fires: first lookup
SrvEnhance(id, answer) ==
  /\ deployment = "server"
  /\ id \in 1..Len(objs)
  /\ task[id].pc = "wait8"
  /\ \E dexData \in fetchDexscreenerData(answer) :
       IF dexData.ok
       THEN /\ objs' = [objs EXCEPT ![id] = Enhanced(@, dexData)]
            /\ clients' = broadcastToMoralisSSE(clients, moralisSSEClients, id)
            /\ IF Confirmed(objs'[id])
               THEN /\ Notify(id)
                    /\ task' = [task EXCEPT ![id].pc = "done",
                                            ![id].lookups = @ + 1,
                                            ![id].flying = @ \ {"chain"},
                                            ![id].lastFailed = answer.failed,
                                            ![id].firstOk = TRUE]
               ELSE /\ task' = [task EXCEPT ![id].pc = "wait10",
                                            ![id].timers = Append(@, 10),
                                            ![id].lookups = @ + 1,
                                            ![id].flying = @ \ {"chain"},
                                            ![id].lastFailed = answer.failed,
                                            ![id].firstOk = TRUE]
                    /\ UNCHANGED notified
       ELSE /\ task' = [task EXCEPT ![id].pc = "retryWait",
                                      ![id].zeroFirst = ZeroPairs(answer),
                                      ![id].timers = Append(@, 10),
                                      ![id].lookups = @ + 1,
                                      ![id].flying = @ \ {"chain"},
                                      ![id].lastFailed = answer.failed]
            /\ UNCHANGED <<objs, clients, notified>>
  /\ UNCHANGED <<envVars, srvVars, seenGraduations, graduatedTokens,
                 awaiting, moralisSSEClients, poolVars, wrkVars>>

\* the 10 s timer after a first lookup without price or market cap: one retry
SrvRetryOnce(id, answer) ==
  /\ deployment = "server"
  /\ id \in 1..Len(objs)
  /\ task[id].pc = "wait10"
  /\ \E retryDexData \in fetchDexscreenerData(answer) :
       /\ IF RetrySucceeded(retryDexData)
          THEN /\ objs' = [objs EXCEPT ![id] = Assigned(@, retryDexData)]
               /\ clients' = broadcastToMoralisSSE(clients, moralisSSEClients, id)
          ELSE UNCHANGED <<objs, clients>>
       /\ task' = [task EXCEPT ![id].pc = "done", ![id].exhausted = TRUE,
                               ![id].lookups = @ + 1,
                               ![id].flying = @ \ {"chain"},
                               ![id].lastFailed = answer.failed,
                               ![id].lastPrice = retryDexData.priceUsdCurrent]
  /\ Notify(id)
  /\ UNCHANGED <<envVars, srvVars, seenGraduations, graduatedTokens,
                 awaiting, moralisSSEClients, poolVars, wrkVars>>

\* retryFetch: a timer (10 s, then 15 s) after a first lookup without data
SrvRetryFetch(id, answer) ==
  /\ deployment = "server"
  /\ id \in 1..Len(objs)
  /\ task[id].pc = "retryWait"
  /\ LET retryCount == task[id].retryCount + 1
     IN  \E retryDexData \in fetchDexscreenerData(answer) :
           IF RetrySucceeded(retryDexData)
           THEN /\ objs' = [objs EXCEPT ![id] = Assigned(@, retryDexData)]
                /\ clients' = broadcastToMoralisSSE(clients, moralisSSEClients, id)
                /\ Notify(id)
                /\ task' = [task EXCEPT ![id].pc = "done",
                                        ![id].retryCount = retryCount,
                                        ![id].gotFull = @ \/ CarriesBoth(answer),
                                        ![id].exhausted = ~(retryCount < maxRetries),
                                        ![id].lookups = @ + 1,
                                        ![id].flying = @ \ {"chain"},
                                        ![id].lastFailed = answer.failed,
                                        ![id].lastPrice = retryDexData.priceUsdCurrent]
           ELSE IF retryCount < maxRetries
                THEN /\ task' = [task EXCEPT ![id].retryCount = retryCount,
                                             ![id].gotFull = @ \/ CarriesBoth(answer),
                                             ![id].timers = Append(@, 15),
                                             ![id].lookups = @ + 1,
                                             ![id].flying = @ \ {"chain"},
                                             ![id].lastFailed = answer.failed,
                                             ![id].lastPrice = retryDexData.priceUsdCurrent]
                     /\ UNCHANGED <<objs, clients, notified>>
                ELSE /\ Notify(id)
                     /\ task' = [task EXCEPT ![id].pc = "done",
                                             ![id].retryCount = retryCount,
                                             ![id].gotFull = @ \/ CarriesBoth(answer),
                                             ![id].exhausted = TRUE,
                                             ![id].lookups = @ + 1,
                                             ![id].flying = @ \ {"chain"},
                                             ![id].lastFailed = answer.failed,
                                             ![id].lastPrice = retryDexData.priceUsdCurrent]
                     /\ UNCHANGED <<objs, clients>>
  /\ UNCHANGED <<envVars, srvVars, seenGraduations, graduatedTokens,
                 awaiting, moralisSSEClients, poolVars, wrkVars>>

\* what becomes of a notification: sent, skipped for want of
\* TELEGRAM_BOT_TOKEN or TELEGRAM_CHAT_ID, the request failing, or the API
\* answering an error
TelegramOutcomes == {"sent", "skipped", "network", "api"}

\* sendTelegramNotification(graduateData) of the server comes to its end.
\* The callers do not await it; its body is one try block whose catch logs,
\* after an early return without credentials, so that no outcome reaches
\* the record, the store or the subscribers.
SrvTelegram(id, outcome) ==
  /\ deployment = "server"
  /\ id \in 1..Len(objs)
  /\ outcome \in TelegramOutcomes
  /\ notified[id] > 0
  /\ task[id].sink = "none"
  /\ task' = [task EXCEPT ![id].sink = outcome]
  /\ UNCHANGED <<envVars, srvVars, seenGraduations, objs, graduatedTokens, awaiting,
                 notified, fanVars, poolVars, wrkVars>>

(************************** server: manual add ******************************)
\* the graduateData object POST /api/add-graduate/:tokenAddress builds; the
\* request passes no seen-set gate, so the object has no key (0)
AddedGraduateData(tokenAddress) ==
  [key |-> 0,
   mint |-> tokenAddress,
   symbol |-> 0,
   graduatedAt |-> IngestTime,
   graduationDex |-> "none",
   volume24h |-> 0,
   marketCap |-> 0,
   priceUsdCurrent |-> 0]

\* graduatedTokens.find(g => g.mint === tokenAddress)
existing(store, tokenAddress) ==
  \E i \in 1..Len(store) : objs[store[i]].mint = tokenAddress

\* POST /api/add-graduate/:tokenAddress: 'already_exists' for a mint the store
\* holds; otherwise the object is put into the store and broadcast and its
\* lookup is started (the handler has no await before the insert)
SrvAddGraduate(tokenAddress, limit) ==
  /\ deployment = "server"
  /\ IF existing(graduatedTokens, tokenAddress)
     THEN UNCHANGED <<objs, graduatedTokens, clients, task, notified, cleared>>
     ELSE /\ Len(objs) + Len(awaiting) < limit
          /\ objs' = Append(objs, AddedGraduateData(tokenAddress))
          /\ graduatedTokens' = Unshift(graduatedTokens, Len(objs) + 1)
          /\ clients' = broadcastToMoralisSSE(clients, moralisSSEClients, Len(objs) + 1)
          /\ task' = Append(task, [NewTask("manual") EXCEPT !.flying = {"chain"}])
          /\ notified' = Append(notified, 0)
          /\ cleared' = FALSE
  /\ UNCHANGED <<envVars, srvVars, seenGraduations, awaiting, moralisSSEClients,
                 detectedPools, processedSignatures, sseClients, poolFeed, fetching,
                 wrkVars>>

\* fetchDexscreenerData(tokenAddress).then(...) of a manual add: every field
\* of the lookup is assigned and the object broadcast again; no notification
SrvAddEnhance(id, answer) ==
  /\ deployment = "server"
  /\ id \in 1..Len(objs)
  /\ task[id].pc = "manual"
  /\ task' = [task EXCEPT ![id].pc = "manualDone", ![id].lookups = @ + 1,
                          ![id].flying = @ \ {"chain"},
                          ![id].lastFailed = answer.failed]
  /\ \E dexData \in fetchDexscreenerData(answer) :
       IF dexData.ok
       THEN /\ objs' = [objs EXCEPT ![id].graduationDex = dexData.graduationDex,
                                    ![id].volume24h = dexData.volume24h,
                                    ![id].marketCap = dexData.marketCap,
                                    ![id].priceUsdCurrent = dexData.priceUsdCurrent]
            /\ clients' = broadcastToMoralisSSE(clients, moralisSSEClients, id)
       ELSE UNCHANGED <<objs, clients>>
  /\ UNCHANGED <<envVars, srvVars, seenGraduations, graduatedTokens, awaiting, notified,
                 moralisSSEClients, poolVars, wrkVars>>

(************************** server: refresh *********************************)
\* times Date.now() - 24 h can stand at when the interval fires, against the
\* graduatedAt values of the records (1, 2 and IngestTime)
Cutoffs == {0, 3, 10}

\* new Date(graduate.graduatedAt || graduate.timestamp) >= oneDayAgo
recentGraduates(g, oneDayAgo) == g.graduatedAt >= oneDayAgo

\* the records of the store get a lookup of the refresh to make: all of them
\* from the endpoint, those of the last 24 hours from the interval
RefreshStarted(tasks, store, kind, oneDayAgo) ==
  [i \in 1..Len(tasks) |->
     IF /\ \E k \in 1..Len(store) : store[k] = i
        /\ kind = "auto" => recentGraduates(objs[i], oneDayAgo)
     THEN [tasks[i] EXCEPT !.refresh = kind] ELSE tasks[i]]

\* POST /api/refresh-trading-data ("manual": forEach over the store, a timer
\* per record) and autoRefreshTradingData ("auto": a loop over the records
\* of the last 24 hours, which returns at once on an empty store)
SrvRefresh(kind, oneDayAgo) ==
  /\ deployment = "server"
  /\ kind \in {"manual", "auto"}
  /\ \A i \in 1..Len(task) : task[i].refresh = "none"
  /\ kind = "auto" => Len(graduatedTokens) > 0
  /\ task' = RefreshStarted(task, graduatedTokens, kind, oneDayAgo)
  /\ UNCHANGED <<envVars, srvVars, seenGraduations, objs, graduatedTokens, awaiting,
                 notified, fanVars, poolVars, wrkVars>>

\* a refresh that assigns the whole lookup
Refreshed_assign(g, dexData, kind) == Assigned(g, dexData)

\* the fields a refresh assigns: the endpoint takes the lookup's, the
\* interval keeps the record's where the lookup has none
Refreshed(g, dexData, kind) ==
  IF kind = "manual"
  THEN [g EXCEPT !.volume24h = dexData.volume24h,
                 !.marketCap = dexData.marketCap,
                 !.priceUsdCurrent = dexData.priceUsdCurrent]
  ELSE [g EXCEPT !.volume24h = dexData.volume24h,
                 !.marketCap = Or(dexData.marketCap, g.marketCap),
                 !.priceUsdCurrent = Or(dexData.priceUsdCurrent, g.priceUsdCurrent)]

\* the lookup of a refresh for record id has answered: the fields are
\* assigned to the object and it is broadcast again.  The loop of the
\* interval takes the records in the order of the store, newest first.
SrvRefreshOne(id, answer) ==
  /\ deployment = "server"
  /\ id \in 1..Len(objs)
  /\ task[id].refresh # "none"
  /\ task[id].refresh = "auto" =>
       \A i \in 1..Len(task) : task[i].refresh = "auto" => i <= id
  /\ \E dexData \in fetchDexscreenerData(answer) :
       IF dexData.ok
       THEN /\ objs' = [objs EXCEPT ![id] = Refreshed(@, dexData, task[id].refresh)]
            /\ clients' = broadcastToMoralisSSE(clients, moralisSSEClients, id)
            /\ task' = [task EXCEPT ![id].refresh = "none",
                                    ![id].swept = @ \/ task[id].refresh = "auto",
                                    ![id].flying = @ \ {"refresh"}]
       ELSE /\ task' = [task EXCEPT ![id].refresh = "none",
                                    ![id].flying = @ \ {"refresh"}]
            /\ UNCHANGED <<objs, clients>>
  /\ UNCHANGED <<envVars, srvVars, seenGraduations, graduatedTokens, awaiting, notified,
                 moralisSSEClients, poolVars, wrkVars>>

(************************* server: lookups in flight ************************)
\* the callback that makes the next lookup for the record: a timer of its
\* chain, or a refresh
Pending(t, of) ==
  IF of = "chain" THEN t.pc \in {"wait8", "wait10", "retryWait"}
  ELSE t.refresh # "none"

\* A timer callback of record id runs up to its
\* await fetchDexscreenerData(...): the request is out, and the step of
\* SrvEnhance, SrvRetryOnce, SrvRetryFetch, SrvAddEnhance or SrvRefreshOne
\* that follows is the callback's continuation.  (A step of those taken with
\* no request out is the callback from the timer to its end.)
SrvLookup(id, of) ==
  /\ deployment = "server"
  /\ id \in 1..Len(objs)
  /\ of \in {"chain", "refresh"}
  /\ Pending(task[id], of)
  /\ of \notin task[id].flying
  /\ of = "refresh" /\ task[id].refresh = "auto" =>
       \A i \in 1..Len(task) : task[i].refresh = "auto" => i <= id
  /\ task' = [task EXCEPT ![id].flying = @ \cup {of}]
  /\ UNCHANGED <<envVars, srvVars, seenGraduations, objs, graduatedTokens, awaiting,
                 notified, fanVars, poolVars, wrkVars>>

(********************* Durable Object: feed connection *********************)
\* feed sockets one behaviour of the Durable Object creates
MaxSockets == 2

SockIds == 1..MaxSockets

\* a socket not created yet; keepalive is whether the interval its open
\* handler started is still active
FreshSocket == [st |-> "none", subscribes |-> <<>>, keepalive |-> FALSE]

NoRow ==
  [n |-> 0, response |-> "none", live |-> 0, connected |-> FALSE,
   subscribes |-> 0, same |-> TRUE]

\* the connection fields a request handler reads and writes, as one value
Conn ==
  [websocket |-> websocket, connected |-> connected, sockets |-> sockets,
   calls |-> calls, response |-> response,
   keepAliveInterval |-> keepAliveInterval, subscribe |-> FALSE,
   update |-> FALSE, answeredConnect |-> FALSE]

Live(socks) == {s \in SockIds : socks[s].st \in {"connecting", "open"}}

Unused(socks) == {s \in SockIds : socks[s].st = "none"}

\* the synchronous part of connectToPumpPortal(): a new socket, kept in
\* this.websocket; the caller is suspended until the socket opens, fails or
\* 10 s pass
StartConnect(c, kind, stage, cl) ==
  LET s == Min(Unused(c.sockets))
  IN  [c EXCEPT !.sockets[s].st = "connecting",
                !.websocket = s,
                !.calls = @ \cup {[kind |-> kind, stage |-> stage, sock |-> s,
                                   cl |-> cl]}]

\* handleConnect: nothing to do when this.connected
AlreadyConnected(c) == c.connected

\* the route of a request, after ensureInitialized
Route(c, kind) ==
  CASE kind = "connect" ->
         IF AlreadyConnected(c)
         THEN [c EXCEPT !.response = "Already connected", !.answeredConnect = TRUE]
         ELSE StartConnect(c, kind, "route", 0)
    [] kind = "heartbeat" ->
         IF ~c.connected
         THEN StartConnect(c, kind, "route", 0)
         ELSE [c EXCEPT !.response = "heartbeat connected"]
    [] kind = "status" ->
         [c EXCEPT !.response =
            IF c.connected THEN "status connected" ELSE "status disconnected"]
    [] kind = "update" -> [c EXCEPT !.update = TRUE]
    [] OTHER -> [c EXCEPT !.subscribe = TRUE]

\* whether routing the request starts a connect, and so needs a new socket
NeedsSocket(c, kind) == kind \in {"connect", "heartbeat"} /\ ~c.connected

\* the suspended request goes on once its connect has resolved (outcome
\* "open") or has been rejected (outcome "failed" after an error, "timeout"
\* after 10 s)
Settle(c, call, outcome) ==
  LET ok == outcome = "open"
      c1 == [c EXCEPT !.calls = @ \ {call},
                      !.connected = IF ok THEN TRUE ELSE @]
  IN  IF call.stage = "init" THEN Route(c1, call.kind)
      ELSE IF call.kind = "connect"
           THEN [c1 EXCEPT !.response = IF ok THEN "Connected to PumpPortal WebSocket"
                                        ELSE "Connection failed: " \o outcome,
                           !.answeredConnect = TRUE]
           ELSE [c1 EXCEPT !.response =
                   IF ok THEN "heartbeat reconnected" ELSE "heartbeat " \o outcome]

\* clearInterval(this.keepAliveInterval)
ClearStored(c) ==
  IF c.keepAliveInterval = 0 THEN c
  ELSE [c EXCEPT !.sockets[c.keepAliveInterval].keepalive = FALSE]

\* the close and error handlers: disconnected, no socket, keepalive cleared
Dropped(c) ==
  [ClearStored(c) EXCEPT !.connected = FALSE, !.websocket = 0,
                         !.keepAliveInterval = 0]

\* what a run of /connect requests compares: the connection as a caller
\* sees it after an answer
RowView(c, n, same) ==
  [n |-> n, response |-> c.response, live |-> Cardinality(Live(c.sockets)),
   connected |-> c.connected,
   subscribes |-> Cardinality({s \in SockIds : c.sockets[s].subscribes # <<>>}),
   same |-> same]

\* two answers of /connect whose connects ended the same way
SameOutcome(r1, r2) ==
  \/ r1 = r2
  \/ {r1, r2} \subseteq {"Connected to PumpPortal WebSocket", "Already connected"}

\* the run after a step: a /connect answered lengthens it (the first answer
\* fixes what later answers that ended the same way are compared with), a
\* step of a /connect still suspended keeps it, anything else ends it
RowAfter(c, ofConnect) ==
  IF c.answeredConnect
  THEN IF row.n = 0 THEN RowView(c, 1, TRUE)
       ELSE [row EXCEPT !.n = 2,
                        !.same = row.same /\ (SameOutcome(c.response, row.response) =>
                                   RowView(c, row.n, row.same) =
                                     [row EXCEPT !.response = c.response])]
  ELSE IF ofConnect THEN row ELSE NoRow

\* the fields of Conn become the object's
Apply(c, ofConnect) ==
  /\ websocket' = c.websocket
  /\ connected' = c.connected
  /\ sockets' = c.sockets
  /\ calls' = c.calls
  /\ keepAliveInterval' = c.keepAliveInterval
  /\ row' = RowAfter(c, ofConnect)

SNAPSHOT_LIMIT == 20

Take(seq, n) == IF Len(seq) > n THEN SubSeq(seq, 1, n) ELSE seq

\* a subscription that sends the whole store
Subscribed_whole(cs, cl, store) ==
  [cs EXCEPT ![cl] = Written([@ EXCEPT !.ping = TRUE],
                             [type |-> "graduates", data |-> store])]

\* handleSSESubscription's start(): the snapshot of the first 20 records is
\* enqueued, then the client joins this.sseClients and its ping interval
\* is started
Subscribed(cs, cl, store) ==
  [cs EXCEPT ![cl] = Written([@ EXCEPT !.ping = TRUE],
                             [type |-> "graduates",
                              data |-> Take(store, SNAPSHOT_LIMIT)])]

\* the streams and the registry after a request: a routed /subscribe adds
\* its client
ApplySubscribe(c, cl, store) ==
  IF c.subscribe
  THEN /\ clients' = Subscribed(clients, cl, store)
       /\ sseClients' = sseClients \cup {cl}
  ELSE UNCHANGED <<clients, sseClients>>

RequestKinds == {"connect", "heartbeat", "status", "subscribe", "update"}

\* what the Durable Object never touches
srvOnly ==
  <<envVars, srvVars, seenGraduations, moralisSSEClients, detectedPools,
    processedSignatures, poolFeed, fetching, cleared>>

wrkPipe == <<objs, awaiting, task, notified, storage>>

\* no request came in through index.js and no bulk replace ran in the step
NoUpdate == [shape |-> "none", data |-> <<>>]

NoRequest == request' = "none" /\ updated' = NoUpdate

\* the bodies POST /update-graduates is given: an array of records (here of
\* records the object knows, in any order), JSON that is no array, and a
\* body that is no JSON
Arrays ==
  {<<>>} \cup {<<i>> : i \in 1..Len(objs)}
         \cup {<<i, 3 - i>> : i \in {k \in 1..2 : Len(objs) >= 2}}

Payloads ==
  {[shape |-> "array", data |-> a] : a \in Arrays}
    \cup {[shape |-> "other", data |-> <<>>], [shape |-> "invalid", data |-> <<>>]}

\* a bulk replace that does not write the blob
handleUpdateGraduates_noPut(mem, blob, payload, putOk) ==
  IF payload.shape = "invalid"
  THEN [graduatedTokens |-> mem, storage |-> blob, response |-> "update error"]
  ELSE IF payload.shape # "array"
       THEN [graduatedTokens |-> mem, storage |-> blob,
             response |-> "Invalid data format"]
       ELSE [graduatedTokens |-> payload.data, storage |-> blob,
             response |-> IF putOk THEN "Graduates data updated successfully"
                          ELSE "update error"]

\* a bulk replace that takes whatever JSON it is given
handleUpdateGraduates_unchecked(mem, blob, payload, putOk) ==
  IF payload.shape = "invalid"
  THEN [graduatedTokens |-> mem, storage |-> blob, response |-> "update error"]
  ELSE [graduatedTokens |-> payload.data, storage |-> payload.data,
        response |-> "Graduates data updated successfully"]

\* handleUpdateGraduates(request): the store, the blob and the response after
\* it.  A body that is no JSON and a put that rejects end in the catch (500);
\* the put comes after the assignment to this.graduatedTokens.
handleUpdateGraduates(mem, blob, payload, putOk) ==
  IF payload.shape = "invalid"
  THEN [graduatedTokens |-> mem, storage |-> blob, response |-> "update error"]
  ELSE IF payload.shape # "array"
       THEN [graduatedTokens |-> mem, storage |-> blob,
             response |-> "Invalid data format"]
       ELSE IF putOk
            THEN [graduatedTokens |-> payload.data, storage |-> payload.data,
                  response |-> "Graduates data updated successfully"]
            ELSE [graduatedTokens |-> payload.data, storage |-> blob,
                  response |-> "update error"]

\* the store, the blob and the response after a request: a routed
\* /update-graduates runs handleUpdateGraduates on the store mem
ApplyUpdate(c, mem) ==
  IF c.update
  THEN \E payload \in Payloads, putOk \in BOOLEAN :
         LET after == handleUpdateGraduates(mem, storage, payload, putOk)
         IN  /\ graduatedTokens' = after.graduatedTokens
             /\ storage' = after.storage
             /\ response' = after.response
             /\ updated' = payload
  ELSE /\ graduatedTokens' = mem
       /\ storage' = storage
       /\ response' = c.response
       /\ updated' = NoUpdate

\* an initialisation that does not read the blob
Loaded_empty(init, mem, blob) == mem

\* ensureInitialized: this.graduatedTokens = stored || [] on first use
Loaded(init, mem, blob) == IF init THEN mem ELSE blob

\* PumpPortalTracker.fetch(request): ensureInitialized, then the route.  The
\* storage read holds the input gate, so the load and the flag are one step;
\* the connect of the first request suspends it before its route.
Fetch(kind) ==
  /\ deployment = "worker"
  /\ kind \in RequestKinds
  /\ kind = "subscribe" => \E x \in ClientIds : ~clients[x].used
  /\ LET first == ~initialized /\ ~connected /\ websocket = 0
         cl == IF kind = "subscribe"
               THEN Min({x \in ClientIds : ~clients[x].used}) ELSE 0
         c == IF first THEN StartConnect(Conn, kind, "init", cl) ELSE Route(Conn, kind)
         store == Loaded(initialized, graduatedTokens, storage)
     IN  /\ (first \/ NeedsSocket(Conn, kind)) => Unused(sockets) # {}
         /\ initialized' = TRUE
         /\ ApplyUpdate(c, store)
         /\ Apply(c, kind = "connect")
         /\ IF c.subscribe
            THEN /\ clients' = Subscribed([clients EXCEPT ![cl].used = TRUE], cl, store)
                 /\ sseClients' = sseClients \cup {cl}
            ELSE /\ sseClients' = sseClients
                 /\ clients' = IF cl = 0 THEN clients
                               ELSE [clients EXCEPT ![cl].used = TRUE]
  /\ UNCHANGED <<srvOnly, objs, awaiting, task, notified>>

\* a request made of the Durable Object itself
WrkRequest(kind) ==
  /\ Fetch(kind)
  /\ request' = "none"

\* the paths of the worker requests are made of
PublicPaths ==
  {"/pumpportal/events", "/pumpportal/health", "/pumpportal/connect",
   "/pumpportal/heartbeat"}

\* index.js fetch: the request of the Durable Object a public path is
\* forwarded as, "none" for a path that gets the default response
Forwarded(pathname) ==
  CASE pathname = "/pumpportal/events" -> "subscribe"
    [] pathname = "/pumpportal/health" -> "status"
    [] pathname = "/pumpportal/connect" -> "connect"
    [] OTHER -> "none"

\* a request to the worker (index.js fetch)
WorkerFetch(pathname) ==
  /\ deployment = "worker"
  /\ request' = pathname
  /\ IF Forwarded(pathname) = "none"
     THEN /\ response' = "Solana Pool Tracker Worker with Durable Objects"
          /\ updated' = NoUpdate
          /\ UNCHANGED <<srvOnly, objs, awaiting, task, notified, storage,
                         graduatedTokens, clients, sseClients, initialized, websocket,
                         connected, keepAliveInterval, sockets, calls, row>>
     ELSE Fetch(Forwarded(pathname))

\* a suspended request resumes (or none does) after an event of socket s
Resume(c, waiting, outcome) ==
  LET c1 == IF waiting = {} THEN c
            ELSE Settle(c, CHOOSE call \in waiting : TRUE, outcome)
      cl == IF waiting = {} THEN 0 ELSE (CHOOSE call \in waiting : TRUE).cl
  IN  /\ \A call \in waiting :
           (call.stage = "init" /\ call.kind \in {"connect", "heartbeat"}
              /\ outcome # "open" /\ ~c.connected) => Unused(c.sockets) # {}
      /\ Apply(c1, \E call \in waiting : call.kind = "connect")
      /\ ApplySubscribe(c1, cl, graduatedTokens)
      /\ ApplyUpdate(c1, graduatedTokens)
      /\ request' = "none"

\* the requests suspended on socket s
Waiting(s) == {call \in calls : call.sock = s}

\* webSocket 'open': the subscribe message, the keepalive interval, then the
\* caller of connectToPumpPortal resumes and sets this.connected
WrkOpen(s) ==
  /\ deployment = "worker"
  /\ sockets[s].st = "connecting"
  /\ Resume([Conn EXCEPT !.sockets[s] =
                           [st |-> "open",
                            subscribes |-> Append(@.subscribes, "subscribeMigration"),
                            keepalive |-> TRUE],
                         !.keepAliveInterval = s],
            Waiting(s), "open")
  /\ UNCHANGED <<srvOnly, objs, awaiting, task, notified, initialized>>

\* webSocket 'error': state dropped, a caller still waiting is rejected
WrkError(s) ==
  /\ deployment = "worker"
  /\ sockets[s].st \in {"connecting", "open"}
  /\ Resume(Dropped([Conn EXCEPT !.sockets[s].st = "errored"]), Waiting(s), "failed")
  /\ UNCHANGED <<srvOnly, objs, awaiting, task, notified, initialized>>

\* webSocket 'close'
WrkClose(s) ==
  /\ deployment = "worker"
  /\ sockets[s].st \in {"open", "errored"}
  /\ Resume(Dropped([Conn EXCEPT !.sockets[s].st = "closed"]), {}, "none")
  /\ UNCHANGED <<srvOnly, objs, awaiting, task, notified, initialized, clients,
                 sseClients>>

\* the 10 s timeout of a connect: the caller is rejected, the socket stays
WrkTimeout(s) ==
  /\ deployment = "worker"
  /\ sockets[s].st = "connecting"
  /\ Waiting(s) # {}
  /\ Resume(Conn, Waiting(s), "timeout")
  /\ UNCHANGED <<srvOnly, objs, awaiting, task, notified, initialized>>

\* a tick of the keepalive interval socket s started: a ping when s is open,
\* otherwise clearInterval of whatever this.keepAliveInterval holds
WrkKeepAlive(s) ==
  /\ deployment = "worker"
  /\ sockets[s].keepalive
  /\ sockets[s].st # "open"
  /\ Resume(ClearStored(Conn), {}, "none")
  /\ UNCHANGED <<srvOnly, objs, awaiting, task, notified, initialized, clients,
                 sseClients>>

\* the runtime evicts the object; the next request constructs it anew
\* (constructor): what was in memory is gone, sockets, timers, streams and
\* suspended handlers with it, and the blob in storage stays
WrkRestart ==
  /\ deployment = "worker"
  /\ initialized
  /\ initialized' = FALSE
  /\ websocket' = 0
  /\ connected' = FALSE
  /\ keepAliveInterval' = 0
  /\ graduatedTokens' = <<>>
  /\ sseClients' = {}
  /\ sockets' = [s \in SockIds |->
                   IF sockets[s].st = "none" THEN sockets[s]
                   ELSE [sockets[s] EXCEPT !.st = "closed", !.keepalive = FALSE]]
  /\ calls' = {}
  /\ awaiting' = <<>>
  /\ task' = [i \in 1..Len(task) |->
                IF task[i].pc = "telegram" THEN [task[i] EXCEPT !.pc = "lost"]
                ELSE task[i]]
  /\ clients' = [c \in ClientIds |->
                   IF clients[c].used
                   THEN [clients[c] EXCEPT !.gone = TRUE, !.ping = FALSE]
                   ELSE clients[c]]
  /\ row' = NoRow
  /\ NoRequest
  /\ UNCHANGED <<srvOnly, objs, notified, storage, response>>

(********************* Durable Object: ingestion ***************************)
\* the graduateData object handlePumpPortalMessage builds (priceUsdCurrent
\* holds its priceUsd, marketCap is not set before enrichment)
WrkGraduateData(message) ==
  [key |-> KeyOf(message.mint, message.timestamp),
   mint |-> message.mint,
   symbol |-> Or(message.symbol, 0),
   graduatedAt |-> Or(message.timestamp, IngestTime),
   graduationDex |-> "raydium",
   volume24h |-> 0,
   marketCap |-> 0,
   priceUsdCurrent |-> Or(message.priceUsd, 0)]

\* an enrichment whose failure leaves the object half written
enrichTokenData_unguarded(g, answer) ==
  IF answer.failed THEN [g EXCEPT !.mint = 0, !.symbol = 0]
  ELSE IF Len(answer.pairs) = 0 THEN g
  ELSE LET pair == graduatedPair(answer.pairs)
       IN  [g EXCEPT !.symbol = pair.symbol,
                     !.volume24h = Or(pair.volume, 0),
                     !.priceUsdCurrent = Or(pair.priceUsd, 0),
                     !.marketCap = Or(pair.marketCap, 0)]

\* enrichTokenData(graduateData): a failed lookup or one without pairs
\* leaves the object as it is
enrichTokenData(g, answer) ==
  IF answer.failed \/ Len(answer.pairs) = 0 THEN g
  ELSE LET pair == graduatedPair(answer.pairs)
       IN  [g EXCEPT !.symbol = pair.symbol,
                     !.volume24h = Or(pair.volume, 0),
                     !.priceUsdCurrent = Or(pair.priceUsd, 0),
                     !.marketCap = Or(pair.marketCap, 0)]

\* broadcastToSSEClients(graduateData)
broadcastToSSEClients(cs, registry, id) == broadcastToMoralisSSE(cs, registry, id)

\* the catch of client.send: this.sseClients.delete(client) for every client
\* among targets whose enqueue threw
Deleted(cs, registry, targets) == registry \ {c \in targets : cs[c].gone}

\* webSocket 'message' up to the await of enrichTokenData: decode, classify
WrkOnMessage(s, message, limit, inflight) ==
  /\ deployment = "worker"
  /\ sockets[s].st = "open"
  /\ IF message.valid /\ IsGraduation(message)
     THEN /\ Room(limit, inflight)
          /\ awaiting' = Append(awaiting, message)
     ELSE UNCHANGED awaiting
  /\ row' = NoRow
  /\ NoRequest
  /\ delivered' = Delivered(message)
  /\ UNCHANGED <<constVars, selected, srvVars, seenGraduations, moralisSSEClients,
                 detectedPools, processedSignatures, poolFeed, fetching, cleared, objs, graduatedTokens, task, notified, storage, clients,
                 sseClients, initialized, websocket, connected, keepAliveInterval,
                 sockets, calls, response>>

\* the handler after enrichTokenData: unshift, then storage.put of the whole
\* store.  A put that rejects throws into the handler's catch, which ends it;
\* after one that resolves sendTelegramNotification is called.
WrkAfterEnrich(i, answer, putOk) ==
  /\ deployment = "worker"
  /\ i \in 1..Len(awaiting)
  /\ LET id == Len(objs) + 1
     IN  /\ objs' = Append(objs, enrichTokenData(WrkGraduateData(awaiting[i]), answer))
         /\ graduatedTokens' = <<id>> \o graduatedTokens
         /\ IF putOk
            THEN /\ storage' = graduatedTokens'
                 /\ task' = Append(task, [NewTask("telegram") EXCEPT
                                            !.lookups = 1, !.lastFailed = answer.failed])
                 /\ notified' = Append(notified, 1)
            ELSE /\ task' = Append(task, [NewTask("failed") EXCEPT
                                            !.lookups = 1, !.lastFailed = answer.failed])
                 /\ notified' = Append(notified, 0)
                 /\ UNCHANGED storage
  /\ awaiting' = Remove(awaiting, i)
  /\ row' = NoRow
  /\ NoRequest
  /\ UNCHANGED <<srvOnly, clients, sseClients, initialized, websocket, connected,
                 keepAliveInterval, sockets, calls, response>>

\* a notification that lets a failed request through to its caller
sendTelegramNotification_throws(outcome) == outcome # "network"

\* sendTelegramNotification(graduateData): whether the call returns to its
\* caller.  It returns early without credentials, catches the rejection of
\* its request and does not look at the response.
sendTelegramNotification(outcome) == TRUE

\* the handler after sendTelegramNotification: the broadcast (a notification
\* that threw would end the handler in its catch)
WrkAfterTelegram(id, outcome) ==
  /\ deployment = "worker"
  /\ id \in 1..Len(objs)
  /\ task[id].pc = "telegram"
  /\ outcome \in TelegramOutcomes
  /\ IF sendTelegramNotification(outcome)
     THEN /\ task' = [task EXCEPT ![id].pc = "done", ![id].sink = outcome]
          /\ clients' = broadcastToSSEClients(clients, sseClients, id)
          /\ sseClients' = Deleted(clients, sseClients, sseClients)
     ELSE /\ task' = [task EXCEPT ![id].pc = "caught", ![id].sink = outcome]
          /\ UNCHANGED <<clients, sseClients>>
  /\ row' = NoRow
  /\ NoRequest
  /\ UNCHANGED <<srvOnly, objs, graduatedTokens, awaiting, notified, storage,
                 initialized, websocket, connected, keepAliveInterval,
                 sockets, calls, response>>

\* a tick of a subscriber's 30 s heartbeat interval: client.send of a ping
WrkPing(cl) ==
  /\ deployment = "worker"
  /\ clients[cl].ping
  /\ clients' = [clients EXCEPT ![cl] = Written(@, [type |-> "ping", data |-> <<>>])]
  /\ sseClients' = Deleted(clients, sseClients, {cl})
  /\ row' = NoRow
  /\ NoRequest
  /\ UNCHANGED <<srvOnly, wrkPipe, graduatedTokens, initialized, websocket,
                 connected, keepAliveInterval, sockets, calls, response>>

(******************** pumpportal-integration.js: ingestion ******************)
\* the graduateData object the integration handler builds
IntGraduateData(message) ==
  [key |-> KeyOf(message.mint, message.timestamp),
   mint |-> message.mint,
   symbol |-> Or(message.symbol, 0),
   graduatedAt |-> Or(message.timestamp, IngestTime),
   graduationDex |-> "none",
   volume24h |-> 0,
   marketCap |-> Or(message.marketCap, 0),
   priceUsdCurrent |-> 0]

\* pumpPortalWs.on('message') of the integration: no await, the record is
\* stored and broadcast in the same turn and a 2 s timer is started
IntOnMessage(message, limit) ==
  /\ deployment = "integration"
  /\ pumpPortalWs.st = "open"
  /\ IF message.valid /\ IsNewToken(message)
        /\ ~Seen(seenGraduations, KeyOf(message.mint, message.timestamp))
     THEN /\ Room(limit, 1)
          /\ seenGraduations' =
               MarkSeen(seenGraduations, KeyOf(message.mint, message.timestamp))
          /\ objs' = Append(objs, IntGraduateData(message))
          /\ graduatedTokens' = Unshift(graduatedTokens, Len(objs) + 1)
          /\ clients' = broadcastToMoralisSSE(clients, moralisSSEClients, Len(objs) + 1)
          /\ task' = Append(task, NewTask("wait2"))
          /\ notified' = Append(notified, 0)
          /\ cleared' = FALSE
     ELSE UNCHANGED <<seenGraduations, objs, graduatedTokens, clients, task, notified,
                      cleared>>
  /\ delivered' = Delivered(message)
  /\ UNCHANGED <<constVars, selected, srvVars, awaiting, moralisSSEClients, detectedPools,
                 processedSignatures, sseClients, poolFeed, fetching, wrkVars>>

\* the 2 s timer: one lookup, every field of it assigned, no notification
IntEnhance(id, answer) ==
  /\ deployment = "integration"
  /\ id \in 1..Len(objs)
  /\ task[id].pc = "wait2"
  /\ task' = [task EXCEPT ![id].pc = "done", ![id].lookups = @ + 1,
                          ![id].lastFailed = answer.failed]
  /\ \E dexData \in fetchDexscreenerData(answer) :
       IF dexData.ok
       THEN /\ objs' = [objs EXCEPT ![id].graduationDex = dexData.graduationDex,
                                    ![id].volume24h = dexData.volume24h,
                                    ![id].marketCap = dexData.marketCap,
                                    ![id].priceUsdCurrent = dexData.priceUsdCurrent]
            /\ clients' = broadcastToMoralisSSE(clients, moralisSSEClients, id)
       ELSE UNCHANGED <<objs, clients>>
  /\ UNCHANGED <<envVars, srvVars, seenGraduations, graduatedTokens, awaiting, notified,
                 moralisSSEClients, poolVars, wrkVars>>

(************************** server: pool side *******************************)
MAX_POOLS == 100

\* pools whose token data is being fetched at the same time
MaxPools == 1

\* transaction signatures a webhook delivery carries (0: none)
Signatures == {0, 1}

\* pool subscribers (GET /events)
PoolClientIds == {1}

\* broadcastToSSE and the clear broadcast: the event reaches the registered
\* pool subscribers
PoolWritten(feed, registry, type) == IF registry = {} THEN feed ELSE type

\* POST /webhook with one transaction, which holds a pool initialisation or
\* does not
Webhook(signature, isPoolInit) ==
  /\ deployment = "server"
  /\ IF ~Truthy(signature) \/ signature \in processedSignatures
     THEN UNCHANGED <<detectedPools, processedSignatures, poolFeed, fetching>>
     ELSE /\ processedSignatures' = processedSignatures \cup {signature}
          /\ isPoolInit => fetching < MaxPools
          /\ IF isPoolInit
             THEN /\ detectedPools' =
                       Take(<<signature>> \o detectedPools, MAX_POOLS)
                  /\ poolFeed' = PoolWritten(poolFeed, sseClients, "newPool")
                  /\ fetching' = fetching + 1
             ELSE UNCHANGED <<detectedPools, poolFeed, fetching>>
  /\ UNCHANGED <<envVars, srvVars, pipeVars, fanVars, sseClients, cleared, wrkVars>>

\* fetchTokenData(poolData).then(...): the pool is broadcast again
PoolTokenData ==
  /\ deployment = "server"
  /\ fetching > 0
  /\ fetching' = fetching - 1
  /\ poolFeed' = PoolWritten(poolFeed, sseClients, "newPool")
  /\ UNCHANGED <<envVars, srvVars, pipeVars, fanVars, detectedPools,
                 processedSignatures, sseClients, cleared, wrkVars>>

\* GET /events: register, then the snapshot of the pools
PoolSubscribe(c) ==
  /\ deployment = "server"
  /\ c \notin sseClients
  /\ sseClients' = sseClients \cup {c}
  /\ poolFeed' = "pools"
  /\ UNCHANGED <<envVars, srvVars, pipeVars, fanVars, detectedPools,
                 processedSignatures, fetching, cleared, wrkVars>>

\* req.on('close') of a pool subscriber
PoolClose(c) ==
  /\ deployment = "server"
  /\ c \in sseClients
  /\ sseClients' = sseClients \ {c}
  /\ UNCHANGED <<envVars, srvVars, pipeVars, fanVars, detectedPools,
                 processedSignatures, poolFeed, fetching, cleared, wrkVars>>

\* POST /api/data/clear: the pools and the processed signatures are emptied
\* and 'clear' goes to the pool subscribers
DataClear ==
  /\ deployment = "server"
  /\ detectedPools' = <<>>
  /\ processedSignatures' = {}
  /\ poolFeed' = PoolWritten(poolFeed, sseClients, "clear")
  /\ cleared' = TRUE
  /\ UNCHANGED <<envVars, srvVars, pipeVars, fanVars, sseClients, fetching, wrkVars>>

(*************************** pair selection *********************************)
\* pairs of one lookup response
MaxPairs == 3

SelPairs ==
  [dexId : DexIds, pairCreatedAt : {0, 1, 2}, priceUsd : {3}, marketCap : {7},
   symbol : {4}, volume : {5}]

NoPair ==
  [dexId |-> "none", pairCreatedAt |-> 0, priceUsd |-> 0, marketCap |-> 0,
   symbol |-> 0, volume |-> 0]

NoSelection == [by |-> "none", found |-> FALSE, pair |-> NoPair]

Lookups == UNION {[1..n -> SelPairs] : n \in 0..MaxPairs}

\* the pair the enrichment of the running program takes from the response:
\* targetPair in the server, graduatedPair in the Durable Object
Select ==
  /\ selected = NoSelection
  /\ IF Len(lookup) = 0
     THEN selected' = [by |-> deployment, found |-> FALSE, pair |-> NoPair]
     ELSE \E pair \in (IF deployment = "worker" THEN {graduatedPair(lookup)}
                       ELSE targetPair(lookup)) :
            selected' = [by |-> deployment, found |-> TRUE, pair |-> pair]
  /\ UNCHANGED <<constVars, delivered, srvVars, pipeVars, fanVars, poolVars, wrkVars>>

(***************************** initial states *******************************)
\* the stores, registries and connection fields as the modules and the
\* constructor leave them
Fresh ==
  /\ delivered = 0
  /\ selected = NoSelection
  /\ listening = FALSE
  /\ pumpPortalWs = NoSocket
  /\ pumpPortalConnected = FALSE
  /\ pumpPortalReconnectAttempts = 0
  /\ reconnectTimer = 0
  /\ scheduledDelays = <<>>
  /\ seenGraduations = {}
  /\ awaiting = <<>>
  /\ graduatedTokens = <<>>
  /\ clients = [c \in ClientIds |-> NoClient]
  /\ moralisSSEClients = {}
  /\ detectedPools = <<>>
  /\ processedSignatures = {}
  /\ sseClients = {}
  /\ poolFeed = "none"
  /\ fetching = 0
  /\ cleared = FALSE
  /\ initialized = FALSE
  /\ websocket = 0
  /\ connected = FALSE
  /\ keepAliveInterval = 0
  /\ sockets = [s \in SockIds |-> FreshSocket]
  /\ calls = {}
  /\ response = "none"
  /\ row = NoRow
  /\ request = "none"
  /\ updated = NoUpdate

\* no record has been created or persisted
Empty ==
  /\ objs = <<>>
  /\ task = <<>>
  /\ notified = <<>>
  /\ storage = <<>>

Init ==
  /\ deployment \in {"server", "integration", "worker"}
  /\ probe = NoMessage
  /\ lookup = <<>>
  /\ Fresh
  /\ Empty

(******************* the pipelines, feed connection reliable ****************)
Next ==
  \/ SrvListen
  \/ SrvOpen
  \/ \E message \in PipelineMessages : SrvOnMessage(message, MaxGraduates, MaxInFlight)
  \/ \E i \in 1..MaxInFlight, answer \in Answers : SrvAfterMetadata(i, answer)
  \/ \E id \in 1..MaxGraduates, answer \in Answers : SrvEnhance(id, answer)
  \/ \E id \in 1..MaxGraduates, answer \in Answers : SrvRetryOnce(id, answer)
  \/ \E id \in 1..MaxGraduates, answer \in Answers : SrvRetryFetch(id, answer)
  \/ \E message \in PipelineMessages : IntOnMessage(message, MaxGraduates)
  \/ \E id \in 1..MaxGraduates, answer \in Answers : IntEnhance(id, answer)
  \/ WrkRequest("status")
  \/ \E s \in SockIds : WrkOpen(s)
  \/ \E s \in SockIds, message \in PipelineMessages :
       WrkOnMessage(s, message, MaxGraduates, MaxInFlight)
  \/ \E i \in 1..MaxInFlight, answer \in Answers, putOk \in BOOLEAN :
       WrkAfterEnrich(i, answer, putOk)
  \/ \E id \in 1..MaxGraduates : WrkAfterTelegram(id, "sent")

Spec == Init /\ [][Next]_vars

(**************************** the classifier ********************************)
\* deliveries of the probe payload
MaxDeliveries == 2

InitClassify ==
  /\ deployment \in {"server", "worker"}
  /\ probe \in FeedMessages
  /\ lookup = <<>>
  /\ Fresh
  /\ Empty

NextClassify ==
  \/ SrvListen
  \/ SrvOpen
  \/ /\ delivered < MaxDeliveries
     /\ \E message \in {probe, Twin(probe)} :
          SrvOnMessage(message, MaxDeliveries, MaxDeliveries)
  \/ \E i \in 1..MaxDeliveries, answer \in Answers : SrvAfterMetadata(i, answer)
  \/ WrkRequest("status")
  \/ \E s \in SockIds : WrkOpen(s)
  \/ /\ delivered < MaxDeliveries
     /\ \E s \in SockIds, message \in {probe, Twin(probe)} :
          WrkOnMessage(s, message, MaxDeliveries, MaxDeliveries)
  \/ \E i \in 1..MaxDeliveries, answer \in Answers, putOk \in BOOLEAN :
       WrkAfterEnrich(i, answer, putOk)

SpecClassify == InitClassify /\ [][NextClassify]_vars

(************************** the feed connection *****************************)
NextConn ==
  \/ SrvListen
  \/ SrvOpen
  \/ SrvError
  \/ SrvClose
  \/ SrvReconnect
  \/ \E kind \in RequestKinds : WrkRequest(kind)
  \/ \E pathname \in PublicPaths : WorkerFetch(pathname)
  \/ \E s \in SockIds : WrkOpen(s)
  \/ \E s \in SockIds : WrkError(s)
  \/ \E s \in SockIds : WrkClose(s)
  \/ \E s \in SockIds : WrkTimeout(s)
  \/ \E s \in SockIds : WrkKeepAlive(s)

SpecConn == Init /\ [][NextConn]_vars

(************************ snapshots under a burst ***************************)
\* graduations of a burst: they arrive before the first enrichment timer fires
MaxBurst == 21

\* a record a previous life of the Durable Object persisted
StoredRecord(i) ==
  [key |-> i, mint |-> i, symbol |-> 4, graduatedAt |-> IngestTime, graduationDex |-> "raydium",
   volume24h |-> 5, marketCap |-> 7, priceUsdCurrent |-> 3]

\* n records in persistent storage, newest first
Stored(n) ==
  /\ objs = [i \in 1..n |-> StoredRecord(i)]
  /\ task = [i \in 1..n |-> NewTask("done")]
  /\ notified = [i \in 1..n |-> 1]
  /\ storage = [i \in 1..n |-> n + 1 - i]

InitSnapshot ==
  /\ deployment \in {"server", "worker"}
  /\ probe = NoMessage
  /\ lookup = <<>>
  /\ Fresh
  /\ IF deployment = "server" THEN Empty
     ELSE \E n \in {MaxBurst - 1, MaxBurst} : Stored(n)

\* the next graduation of the burst: a mint not seen before
BurstMessage == Message(TRUE, "migrate", Len(objs) + Len(awaiting) + 1, "pump-amm", 0, 0)

NoAnswer == [failed |-> TRUE, pairs |-> <<>>]

NextSnapshot ==
  \/ SrvListen
  \/ SrvOpen
  \/ SrvOnMessage(BurstMessage, MaxBurst + 1, 1)
  \/ SrvAfterMetadata(1, NoAnswer)
  \/ \E c \in ClientIds : MoralisSubscribe(c)
  \/ \E c \in ClientIds : MoralisClose(c)
  \/ WrkRequest("subscribe")
  \/ \E s \in SockIds : WrkOpen(s)
  \/ \E s \in SockIds : WrkOnMessage(s, BurstMessage, MaxBurst + 1, 1)
  \/ WrkAfterEnrich(1, NoAnswer, TRUE)
  \/ \E id \in 1..(MaxBurst + 1) : WrkAfterTelegram(id, "sent")
  \/ \E cl \in ClientIds : WrkPing(cl)

SpecSnapshot == InitSnapshot /\ [][NextSnapshot]_vars

(***************************** clearing data ********************************)
InitClear ==
  /\ deployment = "server"
  /\ probe = NoMessage
  /\ lookup = <<>>
  /\ Fresh
  /\ Empty

NextClear ==
  \/ SrvListen
  \/ SrvOpen
  \/ SrvOnMessage(BurstMessage, MaxGraduates, 1)
  \/ SrvAfterMetadata(1, NoAnswer)
  \/ \E signature \in Signatures, isPoolInit \in BOOLEAN : Webhook(signature, isPoolInit)
  \/ PoolTokenData
  \/ \E c \in PoolClientIds : PoolSubscribe(c)
  \/ \E c \in PoolClientIds : PoolClose(c)
  \/ DataClear
  \/ \E c \in ClientIds : MoralisSubscribe(c)
  \/ \E c \in ClientIds : MoralisClose(c)

SpecClear == InitClear /\ [][NextClear]_vars

(************************ selection of the pair *****************************)
InitSelect ==
  /\ deployment \in {"server", "worker"}
  /\ probe = NoMessage
  /\ lookup \in Lookups
  /\ Fresh
  /\ Empty

NextSelect == Select

SpecSelect == InitSelect /\ [][NextSelect]_vars

(********************* the store across restarts ****************************)
InitStore ==
  /\ deployment = "worker"
  /\ probe = NoMessage
  /\ lookup = <<>>
  /\ Fresh
  /\ Empty

NextStore ==
  \/ \E kind \in {"status", "update"} : WrkRequest(kind)
  \/ \E s \in SockIds : WrkOpen(s)
  \/ \E s \in SockIds : WrkOnMessage(s, BurstMessage, MaxGraduates, MaxInFlight)
  \/ \E i \in 1..MaxInFlight, putOk \in BOOLEAN : WrkAfterEnrich(i, NoAnswer, putOk)
  \/ \E id \in 1..MaxGraduates : WrkAfterTelegram(id, "sent")
  \/ WrkRestart

SpecStore == InitStore /\ [][NextStore]_vars

(************************ fan-out to subscribers *****************************)
NextFanout ==
  \/ SrvListen
  \/ SrvOpen
  \/ SrvOnMessage(BurstMessage, MaxGraduates, 1)
  \/ SrvAfterMetadata(1, NoAnswer)
  \/ \E c \in ClientIds : MoralisSubscribe(c)
  \/ \E c \in ClientIds : MoralisClose(c)
  \/ \E c \in ClientIds : ClientGone(c)
  \/ WrkRequest("subscribe")
  \/ \E s \in SockIds : WrkOpen(s)
  \/ \E s \in SockIds : WrkOnMessage(s, BurstMessage, MaxGraduates, 1)
  \/ WrkAfterEnrich(1, NoAnswer, TRUE)
  \/ \E id \in 1..MaxGraduates : WrkAfterTelegram(id, "sent")
  \/ \E cl \in ClientIds : WrkPing(cl)

InitFanout ==
  /\ deployment \in {"server", "worker"}
  /\ probe = NoMessage
  /\ lookup = <<>>
  /\ Fresh
  /\ Empty

SpecFanout == InitFanout /\ [][NextFanout]_vars

(******************** ingestion and manual adds *****************************)
NextManual ==
  \/ SrvListen
  \/ SrvOpen
  \/ \E message \in PipelineMessages : SrvOnMessage(message, MaxGraduates, 1)
  \/ SrvAfterMetadata(1, NoAnswer)
  \/ \E tokenAddress \in {1, 2} : SrvAddGraduate(tokenAddress, MaxGraduates)
  \/ \E id \in 1..MaxGraduates, answer \in Answers : SrvAddEnhance(id, answer)

SpecManual == InitClear /\ [][NextManual]_vars

(************************* the cap of the store ******************************)
\* records one behaviour creates: two more than the store keeps
MaxCap == 102

\* manual adds are made of a store that is within CapRoom records of its cap
CapRoom == 3

NearCap == Len(graduatedTokens) + CapRoom > MAX_GRADUATES

\* a mint no record has yet
NextMint == Len(objs) + Len(awaiting) + 1

NextCap ==
  \/ SrvListen
  \/ SrvOpen
  \/ SrvOnMessage(BurstMessage, MaxCap, 1)
  \/ SrvAfterMetadata(1, NoAnswer)
  \/ /\ NearCap
     /\ \E tokenAddress \in {1, NextMint} : SrvAddGraduate(tokenAddress, MaxCap)
  \/ \E id \in 1..MaxCap : SrvAddEnhance(id, NoAnswer)

SpecCap == InitClear /\ [][NextCap]_vars

(******************************* properties *********************************)
\* records the probe payload has led to, stored or still being built
Records == Len(objs) + Len(awaiting)

\* the three conditions on a decoded message
Accepted(M) == M.txType = "migrate" /\ M.mint # 0 /\ M.pool = "pump-amm"

\* C1 (as amended): a decoded feed message is taken as a graduation exactly
\* when txType is 'migrate', mint is non-empty and pool is 'pump-amm'.  Every
\* such delivery creates a record in the Durable Object; in the server the
\* first delivery of a key mint+timestamp creates one and later ones none.
\* Checked under SpecClassify.
C1_Classifier ==
  /\ Records > 0 => probe.valid /\ Accepted(probe)
  /\ (probe.valid /\ Accepted(probe)) =>
       Records = IF deployment = "worker" THEN delivered
                 ELSE IF delivered > 0 THEN 1 ELSE 0

\* C1 witness: the server has handled an accepted payload twice and holds
\* one record of it
C1_Witness ==
  /\ deployment = "server"
  /\ probe.valid /\ Accepted(probe)
  /\ delivered = 2
  /\ awaiting = <<>>
  /\ Len(objs) = 1
  /\ graduatedTokens = <<1>>

\* C1 as stated: every delivery of a decoded message creates a record if and
\* only if the message meets the three conditions, in both handlers
C1_Original ==
  probe.valid => Records = IF Accepted(probe) THEN delivered ELSE 0

\* records and suspended handlers of the seen-set key k
OfKey(k) ==
  Cardinality({i \in 1..Len(objs) : objs[i].key = k})
    + Cardinality({i \in 1..Len(awaiting) :
                     KeyOf(awaiting[i].mint, awaiting[i].timestamp) = k})

\* C2: in the server, of the accepted messages with one (mint, timestamp)
\* exactly one passes the seen-set check however the handlers interleave, so
\* the store gains exactly one record for the pair.  Checked under
\* SpecClassify, which delivers the probe payload and its twin.
C2_DedupUnderInterleaving ==
  (deployment = "server" /\ probe.valid /\ Accepted(probe) /\ delivered > 0) =>
     /\ OfKey(KeyOf(probe.mint, probe.timestamp)) = 1
     /\ Len(graduatedTokens) = Len(objs)
     /\ \A i \in 1..Len(graduatedTokens) : graduatedTokens[i] = Len(objs) + 1 - i

\* C2 witness: the second message of the pair arrived while the handler of
\* the first was suspended at its lookup
C2_Witness ==
  /\ deployment = "server"
  /\ probe.valid /\ Accepted(probe)
  /\ delivered = 2
  /\ Len(awaiting) = 1
  /\ objs = <<>>

Backoff == <<2, 4, 8, 16, 32>>

\* no attempt is left and none is scheduled
Exhausted ==
  /\ pumpPortalReconnectAttempts = 5
  /\ reconnectTimer = 0
  /\ pumpPortalWs.st = "closed"

BackoffSoFar ==
  /\ Len(scheduledDelays) <= 5
  /\ Len(scheduledDelays) = pumpPortalReconnectAttempts
  /\ \A i \in 1..Len(scheduledDelays) : scheduledDelays[i] = Backoff[i]
  /\ reconnectTimer # 0 => reconnectTimer = Backoff[pumpPortalReconnectAttempts]

\* C3: the reconnect delays scheduled by consecutive closes without an open
\* between them are 2, 4, 8, 16, 32 s in that order, and the close after the
\* fifth leaves the manager exhausted for good: no reconnect is scheduled
\* again.  Checked under SpecConn.
C3_BackoffThenExhausted ==
  [][BackoffSoFar' /\ (Exhausted => Exhausted' /\ scheduledDelays' = Backoff)]_vars

\* C3 witness: the sixth close has happened
C3_Witness ==
  /\ deployment = "server"
  /\ Exhausted
  /\ scheduledDelays = Backoff

\* the subscribe messages a socket has sent are right for its state
OneSubscribeMigration(socket) ==
  /\ socket.st \in {"none", "connecting"} => socket.subscribes = <<>>
  /\ socket.st = "open" => Len(socket.subscribes) = 1
  /\ \A i \in 1..Len(socket.subscribes) : socket.subscribes[i] = "subscribeMigration"

\* C4: every open of the feed connection sends exactly one subscribe message,
\* {method: "subscribeMigration"}, and no connect path sends another method.
\* Checked under SpecConn.
C4_OnlySubscribeMigration ==
  /\ OneSubscribeMigration(pumpPortalWs)
  /\ \A s \in SockIds : OneSubscribeMigration(sockets[s])

HasOtherVenue(pairs) == \E i \in 1..Len(pairs) : pairs[i].dexId # "pumpfun"

\* C5: when the lookup response holds a pair of a venue other than 'pumpfun'
\* the pair taken for enrichment is of another venue; a 'pumpfun' pair is
\* taken only when there is no other.  Checked under SpecSelect.
C5_PrefersOtherVenue ==
  /\ (selected.by # "none" /\ Len(lookup) > 0) => selected.found
  /\ selected.found =>
       /\ \E i \in 1..Len(lookup) : lookup[i] = selected.pair
       /\ HasOtherVenue(lookup) => selected.pair.dexId # "pumpfun"
       /\ selected.pair.dexId = "pumpfun" => ~HasOtherVenue(lookup)

\* C5 witness: the server passed over a leading 'pumpfun' pair
C5_Witness ==
  /\ selected.by = "server"
  /\ selected.found
  /\ Len(lookup) >= 2
  /\ lookup[1].dexId = "pumpfun"
  /\ selected.pair.dexId = "raydium"

\* C6: a record whose first lookup answered zero pairs and one of whose
\* retries answered a pair with priceUsd and marketCap ends with price and
\* market cap set and one notification.  Checked under Spec.
C6_RetryPopulatesRecord ==
  \A id \in 1..Len(objs) :
    (deployment = "server" /\ task[id].pc = "done" /\ task[id].zeroFirst
       /\ task[id].gotFull) =>
      /\ Truthy(objs[id].priceUsdCurrent)
      /\ Truthy(objs[id].marketCap)
      /\ notified[id] = 1

\* C7: for every accepted graduation the notification sink is invoked once
\* the handling of its record has ended, and never twice.  Checked under Spec.
C7_NotifiedExactlyOnce ==
  \A id \in 1..Len(objs) :
    /\ notified[id] <= 1
    /\ (deployment \in {"server", "worker"} /\ task[id].pc \in {"done", "failed"}) =>
         notified[id] = 1

\* C8: after the clear operation the graduate store is empty, and a
\* subscriber who subscribes before the next ingestion gets an empty
\* 'graduates' snapshot.  Checked under SpecClear.
C8_ClearEmptiesStore ==
  /\ cleared => graduatedTokens = <<>>
  /\ \A c \in ClientIds :
       clients[c].afterClear => clients[c].first = [type |-> "graduates", data |-> <<>>]

\* the snapshot a new subscriber of the running program is due
SnapshotOf(store) ==
  IF deployment = "worker" /\ Len(store) > 20 THEN SubSeq(store, 1, 20) ELSE store

\* C9 (as amended): the first event a new subscriber gets is a 'graduates'
\* snapshot of the current store in store order, before any 'newGraduate' or
\* ping: the 20 newest records at most in the Durable Object, the whole store
\* in the server.  Checked under SpecSnapshot.
C9_SnapshotFirst ==
  [][\A c \in ClientIds :
       (clients[c].first = NoEvent /\ clients'[c].first # NoEvent) =>
         clients'[c].first =
           [type |-> "graduates", data |-> SnapshotOf(graduatedTokens')]]_vars

\* C9 witness: a subscriber of the Durable Object got 20 records of a longer
\* store and an event after them
C9_Witness ==
  /\ deployment = "worker"
  /\ \E c \in ClientIds :
       /\ clients[c].first.type = "graduates"
       /\ Len(clients[c].first.data) = 20
       /\ clients[c].last \in {"newGraduate", "ping"}
  /\ Len(graduatedTokens) > 20

\* C9 as stated: the snapshot holds at most 20 records, in both programs
C9_Original ==
  \A c \in ClientIds :
    clients[c].first # NoEvent =>
      /\ clients[c].first.type = "graduates"
      /\ Len(clients[c].first.data) <= 20

\* C10: /connect requests in a row that end the same way leave the
\* connection as the first of them left it: one while connected creates no
\* socket and sends no subscribe message.  Checked under SpecConn.
C10_ConnectIdempotent == row.same


\* C19: a notification the server sends before the retries of its record are
\* used up carries a price and a market cap.  Checked under Spec.
C19_NotifiedWithConfirmedData ==
  \A id \in 1..Len(objs) :
    (deployment = "server" /\ notified[id] > 0 /\ ~task[id].exhausted) =>
      Confirmed(objs[id])


\* notifications sent for the records of the seen-set key k
NotifiedOfKey(k) ==
  Cardinality({i \in 1..Len(objs) : objs[i].key = k /\ notified[i] > 0})

\* C20: in the Durable Object the same graduation message (same mint and
\* timestamp) delivered twice leaves at most one record of it in the store
\* and at most one notification.  Checked under SpecClassify.
C20_WorkerDedup ==
  deployment = "worker" =>
    /\ OfKey(KeyOf(probe.mint, probe.timestamp)) <= 1
    /\ NotifiedOfKey(KeyOf(probe.mint, probe.timestamp)) <= 1
    /\ Cardinality({i \in 1..Len(graduatedTokens) :
                      objs[graduatedTokens[i]].key
                        = KeyOf(probe.mint, probe.timestamp)}) <= 1


\* the feed socket(s) of the running program that are open
OpenFeed ==
  IF deployment = "worker" THEN {s \in SockIds : sockets[s].st = "open"}
  ELSE IF pumpPortalWs.st = "open" THEN {0} ELSE {}

\* the connected flag the health endpoint of the running program reports
ReportedConnected ==
  IF deployment = "worker" THEN connected ELSE pumpPortalConnected

\* C15: in every reachable state the health/status endpoint reports
\* connected=true exactly when a feed socket is open, and connected=false
\* exactly when none is.  Checked under SpecConn.
C15_StatusTruthful == ReportedConnected <=> OpenFeed # {}

\* C16: no keepalive timer is active for a feed socket that is not open: the
\* interval an open starts is cancelled when its connection closes, errors
\* or was part of overlapping connects.  Checked under SpecConn.
C16_NoKeepaliveWithoutConnection ==
  \A s \in SockIds : sockets[s].keepalive => sockets[s].st = "open"


\* C12: no two records of the server's store share a mint: the same mint
\* ingested again, with the same or another timestamp or after a manual add
\* of it, creates no second record.  Checked under SpecManual.
C12_OneRecordPerMint ==
  \A i, j \in 1..Len(graduatedTokens) :
    objs[graduatedTokens[i]].mint = objs[graduatedTokens[j]].mint => i = j

\* the records of a store
InStore(store) == {store[i] : i \in 1..Len(store)}

\* C13: the server's store never holds more than 100 records, whatever the
\* sequence of ingestions and manual adds, and the record an insert into a
\* full store drops is the tail of the store, which is older than every
\* record kept.  Checked under SpecCap.
C13_CapDropsOldest ==
  [][/\ Len(graduatedTokens') <= 100
     /\ LET dropped == InStore(graduatedTokens) \ InStore(graduatedTokens')
        IN  dropped # {} =>
              /\ dropped = {graduatedTokens[Len(graduatedTokens)]}
              /\ Len(graduatedTokens') = 100
              /\ \A d \in dropped, k \in InStore(graduatedTokens') : d < k]_vars

\* C13 witness: both an ingestion and a manual add have overflowed the full
\* store, which holds the 100 newest records
C13_Witness ==
  /\ Len(objs) = 102
  /\ objs[101].key = 0
  /\ objs[102].key # 0
  /\ Len(graduatedTokens) = 100
  /\ graduatedTokens[1] = 102
  /\ graduatedTokens[100] = 3


\* the registry of graduate subscribers of the running program
Registry == IF deployment = "worker" THEN sseClients ELSE moralisSSEClients

\* the step broadcasts a new graduate: the server when it stores the record,
\* the Durable Object after the notification
Broadcasting ==
  \/ deployment = "server" /\ Len(objs') > Len(objs)
  \/ /\ deployment = "worker"
     /\ \E id \in 1..Len(task) : task[id].pc = "telegram" /\ task'[id].pc = "done"

\* C17: a subscriber to whom a send has failed is no longer in the registry
\* and gets nothing more, and a broadcast still reaches every other
\* registered subscriber.  Checked under SpecFanout.
C17_FailedSendRemoves ==
  [][/\ \A c \in ClientIds :
          clients'[c].failed =>
            /\ c \notin Registry'
            /\ clients'[c].last = clients[c].last
     /\ Broadcasting =>
          \A c \in Registry :
            ~clients[c].gone => clients'[c].last = "newGraduate"]_vars


\* C11: in the worker a request to the public path /pumpportal/heartbeat made
\* while the tracker is disconnected starts a connect, and when the socket a
\* heartbeat waits for opens the tracker is connected and the response says
\* so.  Checked under SpecConn.
C11_HeartbeatReconnects ==
  [][/\ (request' = "/pumpportal/heartbeat" /\ ~connected /\ Unused(sockets) # {}) =>
          \E s \in SockIds :
            sockets[s].st = "none" /\ sockets'[s].st = "connecting"
     /\ \A call \in calls :
          (call.kind = "heartbeat" /\ sockets[call.sock].st = "connecting"
             /\ sockets'[call.sock].st = "open") =>
            /\ connected'
            /\ response' \in {"heartbeat reconnected", "heartbeat connected"}]_vars

\* C14: the store the Durable Object has after its first request following a
\* restart is the blob last written to storage, in content and order, and a
\* restart leaves the blob as it is.  Checked under SpecStore.
C14_RestartLoadsPersisted ==
  [][/\ (~initialized /\ initialized') =>
          graduatedTokens' = storage /\ storage' = storage
     /\ (initialized /\ ~initialized') => storage' = storage]_vars

\* C14 witness: a record whose put was rejected was in memory only; after a
\* restart the first request finds the store as it was last written
C14_Witness ==
  /\ initialized
  /\ sockets[1].st = "closed"
  /\ updated = NoUpdate
  /\ storage = <<1>>
  /\ graduatedTokens = storage
  /\ \E id \in 1..Len(objs) :
       task[id].pc = "failed" /\ id \notin InStore(graduatedTokens)

\* C18: after a bulk replace with array X that is answered with success the
\* store and the persisted blob are X; a body that is JSON but no array is
\* rejected and leaves the store and the blob as they were.  Checked under
\* SpecStore.
C18_BulkReplace ==
  [][/\ (updated'.shape = "array"
           /\ response' = "Graduates data updated successfully") =>
          graduatedTokens' = updated'.data /\ storage' = updated'.data
     /\ updated'.shape = "other" =>
          /\ response' = "Invalid data format"
          /\ graduatedTokens' = graduatedTokens
          /\ storage' = storage]_vars

\* C18 witness: a bulk replace has turned the order of a store of two records
\* around, in memory and in storage
C18_Witness ==
  /\ updated = [shape |-> "array", data |-> <<1, 2>>]
  /\ response = "Graduates data updated successfully"
  /\ graduatedTokens = <<1, 2>>
  /\ storage = <<1, 2>>

(******************** the connection manager's states **********************)
\* the state of the connection manager as its fields give it: the flag
\* this.connected and the handle this.websocket of the Durable Object, the
\* flag pumpPortalConnected and the socket pumpPortalWs names of the server
ManagerState ==
  IF deployment = "worker"
  THEN CASE ~connected /\ websocket = 0 -> "Disconnected"
         [] ~connected /\ websocket # 0 -> "Connecting"
         [] connected /\ websocket # 0 -> "Connected"
         [] OTHER -> "other"
  ELSE CASE pumpPortalConnected /\ pumpPortalWs.st = "open" -> "Connected"
         [] ~pumpPortalConnected /\ pumpPortalWs.st = "connecting" -> "Connecting"
         [] ~pumpPortalConnected /\ pumpPortalWs.st # "open" -> "Disconnected"
         [] OTHER -> "other"

\* the sockets that open, and those that fail or close, in the step
Opening ==
  IF deployment = "worker"
  THEN {s \in SockIds : sockets[s].st = "connecting" /\ sockets'[s].st = "open"}
  ELSE {s \in {0} : pumpPortalWs.st = "connecting" /\ pumpPortalWs'.st = "open"}

Failing ==
  IF deployment = "worker"
  THEN {s \in SockIds : /\ sockets[s].st \in {"connecting", "open", "errored"}
                        /\ sockets'[s].st \in {"errored", "closed"}
                        /\ sockets'[s].st # sockets[s].st}
  ELSE {s \in {0} : /\ pumpPortalWs.st \in {"connecting", "open", "errored"}
                    /\ pumpPortalWs'.st \in {"errored", "closed"}
                    /\ pumpPortalWs'.st # pumpPortalWs.st}

\* C21: the connection manager is always in exactly one of Disconnected,
\* Connecting and Connected; it enters Connected only from Connecting, in a
\* step in which the transport opens; and a close or an error of a socket
\* leaves it not connected, its handle not on that socket
C21_ConnectionStates ==
  [][/\ ManagerState' \in {"Disconnected", "Connecting", "Connected"}
     /\ (ManagerState # "Connected" /\ ManagerState' = "Connected") =>
          (ManagerState = "Connecting" /\ Opening # {})
     /\ Failing # {} =>
          /\ ManagerState' # "Connected"
          /\ deployment = "worker" => websocket' \notin Failing]_vars

\* C22: at most one feed socket is open or connecting at any time
C22_SingleFeedSocket ==
  /\ Cardinality(Live(sockets)) <= 1
  /\ Cardinality({s \in SockIds : sockets[s].st = "open"}) <= 1

(************************ the enrichment chains ******************************)
\* records whose chains one behaviour follows
MaxChains == 1

NextRetry ==
  \/ SrvListen
  \/ SrvOpen
  \/ \E message \in PipelineMessages : SrvOnMessage(message, MaxChains, MaxChains)
  \/ \E i \in 1..MaxChains, answer \in Answers : SrvAfterMetadata(i, answer)
  \/ \E id \in 1..MaxChains, answer \in Answers : SrvEnhance(id, answer)
  \/ \E id \in 1..MaxChains, answer \in Answers : SrvRetryOnce(id, answer)
  \/ \E id \in 1..MaxChains, answer \in Answers : SrvRetryFetch(id, answer)
  \/ \E message \in PipelineMessages : IntOnMessage(message, MaxChains)
  \/ \E id \in 1..MaxChains, answer \in Answers : IntEnhance(id, answer)
  \/ WrkRequest("status")
  \/ \E s \in SockIds : WrkOpen(s)
  \/ \E s \in SockIds, message \in PipelineMessages :
       WrkOnMessage(s, message, MaxChains, MaxChains)
  \/ \E i \in 1..MaxChains, answer \in Answers, putOk \in BOOLEAN :
       WrkAfterEnrich(i, answer, putOk)
  \/ \E id \in 1..MaxChains : WrkAfterTelegram(id, "sent")

SpecRetry == Init /\ [][NextRetry]_vars

(************************* the order of the store ***************************)
\* records one behaviour creates
MaxOrder == 2

\* the answers the lookups of these behaviours get: a failure, a pair with
\* price and market cap, a pair without
OrderAnswers ==
  LET P(p, m) == [dexId |-> "raydium", pairCreatedAt |-> 2, priceUsd |-> p,
                  marketCap |-> m, symbol |-> 4, volume |-> 5]
  IN  {NoAnswer, [failed |-> FALSE, pairs |-> <<P(3, 7)>>],
       [failed |-> FALSE, pairs |-> <<P(0, 0)>>]}

NextOrder ==
  \/ SrvListen
  \/ SrvOpen
  \/ SrvOnMessage(BurstMessage, MaxOrder, MaxInFlight)
  \/ \E i \in 1..MaxInFlight : SrvAfterMetadata(i, NoAnswer)
  \/ \E id \in 1..MaxOrder, answer \in OrderAnswers : SrvEnhance(id, answer)
  \/ \E id \in 1..MaxOrder, answer \in OrderAnswers : SrvRetryOnce(id, answer)
  \/ \E id \in 1..MaxOrder, answer \in OrderAnswers : SrvRetryFetch(id, answer)
  \/ \E tokenAddress \in {1, NextMint} : SrvAddGraduate(tokenAddress, MaxOrder)
  \/ \E id \in 1..MaxOrder, answer \in OrderAnswers : SrvAddEnhance(id, answer)
  \/ \E kind \in {"manual", "auto"}, oneDayAgo \in Cutoffs : SrvRefresh(kind, oneDayAgo)
  \/ \E id \in 1..MaxOrder, answer \in OrderAnswers : SrvRefreshOne(id, answer)
  \/ WrkRequest("status")
  \/ \E s \in SockIds : WrkOpen(s)
  \/ \E s \in SockIds : WrkOnMessage(s, BurstMessage, MaxOrder, MaxInFlight)
  \/ \E i \in 1..MaxInFlight, answer \in OrderAnswers, putOk \in BOOLEAN :
       WrkAfterEnrich(i, answer, putOk)
  \/ \E id \in 1..MaxOrder : WrkAfterTelegram(id, "sent")

SpecOrder == InitFanout /\ [][NextOrder]_vars

(************************** the retry chains ********************************)
\* the record carries a price and a market cap
HasBoth(g) == g.priceUsdCurrent # 0 /\ g.marketCap # 0

\* the chains of the server's records
Chains == IF deployment = "server" THEN 1..Len(task) ELSE {}

\* the chain of a record is over: nothing of it changes any more
Settled(id) == task'[id] = task[id] /\ notified'[id] = notified[id]

FullChain == <<8, 10, 15, 15>>

\* C24: after a first lookup that returned zero pairs there are at most 3
\* further lookups, the timers between them of 15 s; the chain ends at the
\* first retry that returns data with a price, or at the third miss with a
\* notification of the record as it was; then nothing is scheduled any more
C24_BoundedRetries ==
  [][\A id \in Chains : task[id].zeroFirst =>
       /\ task'[id].retryCount <= maxRetries
       /\ task'[id].lookups = 1 + task'[id].retryCount
       /\ task'[id].timers = SubSeq(FullChain, 1, Len(task'[id].timers))
       /\ task[id].pc = "retryWait" =>
            \/ Settled(id) /\ objs'[id] = objs[id]
            \/ /\ task'[id].retryCount = task[id].retryCount + 1
               /\ IF task'[id].lastPrice # 0
                  THEN /\ task'[id].pc = "done"
                       /\ task'[id].timers = task[id].timers
                       /\ notified'[id] = 1
                  ELSE IF task'[id].retryCount < maxRetries
                       THEN /\ task'[id].pc = "retryWait"
                            /\ task'[id].timers = Append(task[id].timers, 15)
                            /\ notified'[id] = 0
                            /\ objs'[id] = objs[id]
                       ELSE /\ task'[id].pc = "done"
                            /\ task'[id].timers = task[id].timers
                            /\ notified'[id] = 1
                            /\ objs'[id] = objs[id]
       /\ task[id].pc = "done" => Settled(id)]_vars

\* a chain that ended at its third miss
C24_Witness ==
  \E id \in Chains :
    /\ task[id].zeroFirst
    /\ task[id].pc = "done"
    /\ task[id].retryCount = 3
    /\ task[id].lastPrice = 0
    /\ task[id].timers = FullChain
    /\ notified[id] = 1

(**************************** failed lookups ********************************)
\* a lookup was made for record id in the step, and its request failed
FailedLookup(id) ==
  /\ task'[id].lastFailed
  /\ IF id > Len(task) THEN TRUE ELSE task'[id].lookups = task[id].lookups + 1

\* what follows a lookup of the server's chain that brought nothing: the
\* record untouched, then the retry timer or, the retries used up, the
\* notification
AsAfterMiss(id) ==
  /\ objs'[id] = objs[id]
  /\ CASE task[id].pc = "wait8" ->
            /\ task'[id].pc = "retryWait"
            /\ task'[id].timers = Append(task[id].timers, 10)
            /\ notified'[id] = notified[id]
       [] task[id].pc = "wait10" ->
            /\ task'[id].pc = "done"
            /\ notified'[id] = notified[id] + 1
       [] task[id].pc = "retryWait" ->
            IF task'[id].retryCount < maxRetries
            THEN /\ task'[id].pc = "retryWait"
                 /\ task'[id].timers = Append(task[id].timers, 15)
                 /\ notified'[id] = notified[id]
            ELSE /\ task'[id].pc = "done"
                 /\ notified'[id] = notified[id] + 1
       [] OTHER -> FALSE

\* C25: a lookup that fails, the first or a retry, counts as no data for
\* that attempt: the record is in the store as it was (as the message gave
\* it, when the lookup precedes the insert) and what follows a miss follows:
\* the timers and notifications of the server's chain, the insert, the write
\* and the notification of the Durable Object
C25_FailedLookupIsMiss ==
  [][\A id \in 1..Len(task') :
       (deployment \in {"server", "worker"} /\ FailedLookup(id)) =>
         /\ id \in InStore(graduatedTokens')
         /\ InStore(graduatedTokens) \subseteq InStore(graduatedTokens')
         /\ IF id <= Len(task) THEN AsAfterMiss(id)
            ELSE IF deployment = "server"
                 THEN /\ \E i \in 1..Len(awaiting) :
                           objs'[id] = GraduateData(awaiting[i], NoAnswer)
                      /\ task'[id].pc = "wait8"
                      /\ task'[id].timers = <<8>>
                 ELSE /\ \E i \in 1..Len(awaiting) :
                           objs'[id] = WrkGraduateData(awaiting[i])
                      /\ storage' = graduatedTokens' =>
                           (task'[id].pc = "telegram" /\ notified'[id] = 1)]_vars

\* a chain of the server whose first lookup brought no data and whose
\* third retry failed, ended by the notification
C25_Witness ==
  \E id \in Chains :
    /\ task[id].pc = "done"
    /\ task[id].lastFailed
    /\ task[id].retryCount = maxRetries
    /\ task[id].lastPrice = 0
    /\ ~task[id].zeroFirst
    /\ notified[id] = 1
    /\ id \in InStore(graduatedTokens)

(************************** the order of records ****************************)
\* the position of record id in the store
PositionIn(store, id) == CHOOSE k \in 1..Len(store) : store[k] = id

Inserted == deployment = "worker" /\ Len(objs') = Len(objs) + 1

\* the step is a bulk replace that assigned the store
Replaced == deployment = "worker" /\ updated'.shape = "array"

\* the storage.put of the step was rejected
WriteRejected ==
  \/ Inserted /\ task'[Len(task')].pc = "failed"
  \/ Replaced /\ response' = "update error"

C28_WriteFailureSwallowed ==
  [][(Inserted /\ storage' # graduatedTokens') =>
       /\ Len(objs') \in InStore(graduatedTokens')
       /\ notified'[Len(objs')] = 1
       /\ task'[Len(objs')].pc = "telegram"]_vars

(**************************** ping timers ***********************************)
\* C29: a ping that fails removes the subscriber from the registry and
\* cancels its ping timer, as a failed data send does: no ping timer is
\* active for a subscriber that is not registered
C29_NoPingTimerWithoutSubscriber ==
  deployment = "worker" =>
    \A cl \in ClientIds :
      /\ clients[cl].failed => cl \notin sseClients
      /\ clients[cl].ping => cl \in sseClients

(************************ records that disappear ****************************)
\* the store the tracker serves: the one in memory, and for a Durable Object
\* not yet initialised the blob its first request will load
ServedStore(init, mem, blob) ==
  IF deployment = "worker" /\ ~init THEN blob ELSE mem

\* the records that are in the store before the step and not after it
Disappeared ==
  InStore(ServedStore(initialized, graduatedTokens, storage))
    \ InStore(ServedStore(initialized', graduatedTokens', storage'))

\* C30: a record that is in the store leaves it only by an operation on the
\* whole store (the bulk replace) or as the oldest record of a store at its
\* cap when a new one is inserted
C30_NeverRemoved ==
  [][Disappeared # {} =>
       \/ Replaced
       \/ /\ deployment # "worker"
          /\ Len(graduatedTokens) = MAX_GRADUATES
          /\ Disappeared = {graduatedTokens[Len(graduatedTokens)]}]_vars


\* the interval's loop handles record id in this step
SweepVisits(id) ==
  /\ id \in 1..Len(task)
  /\ task[id].refresh = "auto"
  /\ task'[id].refresh = "none"

\* the interval starts a loop in this step
SweepStarts ==
  \E id \in 1..Len(task) : task[id].refresh = "none" /\ task'[id].refresh = "auto"

\* C31 (as amended): a step of the periodic refresh changes, of the record it
\* visits, nothing but the trading statistics, the market cap and the price
\* (these two only to a value the lookup carries), leaves every other record
\* as it is and calls no notification; and the records a loop visits are
\* those of the store whose graduatedAt lies within the last 24 hours when
\* the loop starts.
C31_SweepChangesTradingData ==
  [][/\ \A id \in 1..Len(task) :
          SweepVisits(id) =>
            /\ notified' = notified
            /\ graduatedTokens' = graduatedTokens
            /\ \A j \in 1..Len(objs) : j # id => objs'[j] = objs[j]
            /\ objs'[id] = [objs[id] EXCEPT !.volume24h = objs'[id].volume24h,
                                            !.marketCap = objs'[id].marketCap,
                                            !.priceUsdCurrent = objs'[id].priceUsdCurrent]
            /\ objs'[id].marketCap # objs[id].marketCap => Truthy(objs'[id].marketCap)
            /\ objs'[id].priceUsdCurrent # objs[id].priceUsdCurrent
                  => Truthy(objs'[id].priceUsdCurrent)
     /\ SweepStarts =>
          /\ objs' = objs /\ notified' = notified
          /\ \E oneDayAgo \in Cutoffs :
               \A i \in 1..Len(task) :
                 task'[i].refresh = "auto" <=>
                   i \in InStore(graduatedTokens) /\ objs[i].graduatedAt >= oneDayAgo
    ]_vars

\* the loop has given record 2 its statistics and a market cap, before the
\* record's own lookup, and has left record 1, older than 24 hours, alone
C31_Witness ==
  /\ deployment = "server"
  /\ Len(objs) = 2
  /\ task[2].swept /\ task[2].lookups = 0
  /\ objs[2].volume24h = 5 /\ objs[2].marketCap = 7
  /\ objs[1].graduatedAt = 2 /\ ~task[1].swept /\ task[1].refresh = "none"

\* C31: a step of the periodic refresh changes nothing but the trading
\* statistics of the record it visits, and calls no notification.
C31_Original ==
  [][\A id \in 1..Len(task) :
       SweepVisits(id) =>
         /\ notified' = notified
         /\ \A j \in 1..Len(objs) : j # id => objs'[j] = objs[j]
         /\ objs'[id] = [objs[id] EXCEPT !.volume24h = objs'[id].volume24h]
    ]_vars


(********************** every lookup made for a record **********************)
\* records one behaviour creates
MaxRecords == 1

\* the server with the chain of a record, the manual add and both refreshes,
\* each lookup in two steps where the request and its answer are apart
NextLookups ==
  \/ SrvListen
  \/ SrvOpen
  \/ \E message \in PipelineMessages : SrvOnMessage(message, MaxRecords, 1)
  \/ \E answer \in Answers : SrvAfterMetadata(1, answer)
  \/ \E id \in 1..MaxRecords, of \in {"chain", "refresh"} : SrvLookup(id, of)
  \/ \E id \in 1..MaxRecords, answer \in Answers : SrvEnhance(id, answer)
  \/ \E id \in 1..MaxRecords, answer \in Answers : SrvRetryOnce(id, answer)
  \/ \E id \in 1..MaxRecords, answer \in Answers : SrvRetryFetch(id, answer)
  \/ SrvAddGraduate(1, MaxRecords)
  \/ \E id \in 1..MaxRecords, answer \in Answers : SrvAddEnhance(id, answer)
  \/ \E kind \in {"manual", "auto"}, oneDayAgo \in Cutoffs : SrvRefresh(kind, oneDayAgo)
  \/ \E id \in 1..MaxRecords, answer \in Answers : SrvRefreshOne(id, answer)

SpecLookups == InitClear /\ [][NextLookups]_vars

\* C32: no record ever has two lookups in flight: a callback of its chain
\* and a callback of a refresh are never both suspended at their
\* fetchDexscreenerData for the same record.
C32_OneLookupPerRecord ==
  \A id \in 1..Len(task) : Cardinality(task[id].flying) <= 1


\* C33: a price or a market cap a record holds is never set back to null:
\* every step leaves a non-null one non-null.
C33_NeverBackToNull ==
  [][\A id \in 1..Len(objs) :
       /\ Truthy(objs[id].marketCap) => Truthy(objs'[id].marketCap)
       /\ Truthy(objs[id].priceUsdCurrent) => Truthy(objs'[id].priceUsdCurrent)
    ]_vars


(************************ messages that are dropped **************************)
\* records one behaviour creates
MaxDrop == 2

\* a graduation of the given mint
Graduation(mint) == Message(TRUE, "migrate", mint, "pump-amm", 0, 0)

\* The feed delivers the probe payload, of any shape, among graduations: of
\* mint 3 at any time, of mint 4 once the probe has been delivered.
NextDrop ==
  \/ SrvListen
  \/ SrvOpen
  \/ /\ delivered < MaxDeliveries
     /\ SrvOnMessage(probe, MaxDrop, 1)
  \/ SrvOnMessage(Graduation(3), MaxDrop, 1)
  \/ /\ delivered > 0
     /\ SrvOnMessage(Graduation(4), MaxDrop, 1)
  \/ SrvAfterMetadata(1, NoAnswer)
  \/ \E c \in ClientIds : MoralisSubscribe(c)
  \/ WrkRequest("subscribe")
  \/ \E s \in SockIds : WrkOpen(s)
  \/ /\ delivered < MaxDeliveries
     /\ \E s \in SockIds : WrkOnMessage(s, probe, MaxDrop, 1)
  \/ \E s \in SockIds : WrkOnMessage(s, Graduation(3), MaxDrop, 1)
  \/ /\ delivered > 0
     /\ \E s \in SockIds : WrkOnMessage(s, Graduation(4), MaxDrop, 1)
  \/ WrkAfterEnrich(1, NoAnswer, TRUE)
  \/ \E id \in 1..MaxDrop : WrkAfterTelegram(id, "sent")

SpecDrop == InitClassify /\ [][NextDrop]_vars

\* the probe payload is no graduation event
Rejected == ~(probe.valid /\ Accepted(probe))

\* C34: the handling of a feed message that is no graduation event (one that
\* does not decode, a migration on another venue, any other message) leaves
\* the store, the persisted blob, the seen set and the registries as they
\* are, writes to no subscriber, calls no notification, starts no handler or
\* chain and leaves the feed socket open, so that the messages that follow
\* are handled as before.
C34_NonGraduationDropped ==
  [][(Rejected /\ delivered' = delivered + 1) =>
       UNCHANGED <<graduatedTokens, objs, storage, seenGraduations,
                   moralisSSEClients, sseClients, clients, notified, awaiting, task,
                   pumpPortalWs, pumpPortalConnected, sockets, websocket, connected>>
    ]_vars

\* a migration on another venue has been delivered twice; the graduation
\* sent after it is in the store and was broadcast to a subscriber
C34_Witness ==
  /\ probe.valid /\ probe.txType = "migrate" /\ probe.mint = 1 /\ probe.pool = "raydium"
  /\ delivered = 2
  /\ \E i \in 1..Len(graduatedTokens) : objs[graduatedTokens[i]].mint = 4
  /\ clients[1].last = "newGraduate"


(************************* notifications that fail ***************************)
\* records one behaviour creates
MaxNotify == 1

\* both pipelines with subscribers, every notification ending in any of its
\* outcomes
NextNotify ==
  \/ SrvListen
  \/ SrvOpen
  \/ SrvOnMessage(BurstMessage, MaxNotify, 1)
  \/ SrvAfterMetadata(1, NoAnswer)
  \/ \E id \in 1..MaxNotify, answer \in OrderAnswers : SrvEnhance(id, answer)
  \/ \E id \in 1..MaxNotify, answer \in OrderAnswers : SrvRetryOnce(id, answer)
  \/ \E id \in 1..MaxNotify, answer \in OrderAnswers : SrvRetryFetch(id, answer)
  \/ \E id \in 1..MaxNotify, outcome \in TelegramOutcomes : SrvTelegram(id, outcome)
  \/ \E c \in ClientIds : MoralisSubscribe(c)
  \/ WrkRequest("subscribe")
  \/ \E s \in SockIds : WrkOpen(s)
  \/ \E s \in SockIds : WrkOnMessage(s, BurstMessage, MaxNotify, 1)
  \/ \E answer \in OrderAnswers : WrkAfterEnrich(1, answer, TRUE)
  \/ \E id \in 1..MaxNotify, outcome \in TelegramOutcomes : WrkAfterTelegram(id, outcome)

SpecNotify == InitFanout /\ [][NextNotify]_vars

\* the notification of record id comes to its end in this step, not sent
NotSent(id) ==
  /\ id \in 1..Len(task)
  /\ task[id].sink = "none"
  /\ task'[id].sink \in {"skipped", "network", "api"}

\* C35: a notification that is skipped or fails leaves the record, the store
\* and the persisted blob as they are and stops nothing: in the Durable
\* Object the handler goes on to broadcast the record to every subscriber,
\* in the server (where the broadcasts precede the notification) the
\* registry and the streams stay as they are.
C35_FailedNotificationHarmless ==
  [][\A id \in 1..Len(task) :
       NotSent(id) =>
         /\ objs' = objs /\ graduatedTokens' = graduatedTokens /\ storage' = storage
         /\ id \in InStore(graduatedTokens')
         /\ deployment = "worker" =>
              /\ task'[id].pc = "done"
              /\ clients' = broadcastToSSEClients(clients, sseClients, id)
         /\ deployment = "server" =>
              /\ clients' = clients /\ moralisSSEClients' = moralisSSEClients
              /\ task'[id].pc = task[id].pc
    ]_vars

\* the Durable Object has broadcast a record to its subscriber after the
\* request of the record's notification had failed
C35_Witness ==
  /\ deployment = "worker"
  /\ Len(objs) = 1
  /\ task[1].sink = "network" /\ task[1].pc = "done"
  /\ graduatedTokens = <<1>> /\ storage = <<1>>
  /\ 1 \in sseClients
  /\ clients[1].last = "newGraduate"


(********************** broadcasts that have to follow ***********************)
\* records one behaviour creates
MaxLive == 1

\* ingestion and enrichment with subscribers; the Durable Object's write to
\* storage may be rejected
NextLive ==
  \/ SrvListen
  \/ SrvOpen
  \/ SrvOnMessage(BurstMessage, MaxLive, 1)
  \/ SrvAfterMetadata(1, NoAnswer)
  \/ \E id \in 1..MaxLive, answer \in OrderAnswers : SrvEnhance(id, answer)
  \/ \E id \in 1..MaxLive, answer \in OrderAnswers : SrvRetryOnce(id, answer)
  \/ \E id \in 1..MaxLive, answer \in OrderAnswers : SrvRetryFetch(id, answer)
  \/ \E c \in ClientIds : MoralisSubscribe(c)
  \/ WrkRequest("subscribe")
  \/ \E s \in SockIds : WrkOpen(s)
  \/ \E s \in SockIds : WrkOnMessage(s, BurstMessage, MaxLive, 1)
  \/ \E answer \in OrderAnswers, putOk \in BOOLEAN : WrkAfterEnrich(1, answer, putOk)
  \/ \E id \in 1..MaxLive, outcome \in TelegramOutcomes : WrkAfterTelegram(id, outcome)

\* every external call answers: a suspended handler is resumed, and a timer
\* that was started fires
SpecLive ==
  /\ InitFanout
  /\ [][NextLive]_vars
  /\ WF_vars(SrvAfterMetadata(1, NoAnswer))
  /\ WF_vars(\E answer \in OrderAnswers, putOk \in BOOLEAN : WrkAfterEnrich(1, answer, putOk))
  /\ \A id \in 1..MaxLive :
       /\ WF_vars(\E outcome \in TelegramOutcomes : WrkAfterTelegram(id, outcome))
       /\ WF_vars(\E answer \in OrderAnswers : SrvEnhance(id, answer))
       /\ WF_vars(\E answer \in OrderAnswers : SrvRetryOnce(id, answer))
       /\ WF_vars(\E answer \in OrderAnswers : SrvRetryFetch(id, answer))

\* the handler that put record id into the store has made its broadcast: in
\* the server it has gone on to start the record's 8 s timer, in the Durable
\* Object it has come to its end
Announced(id) ==
  /\ id \in 1..Len(task)
  /\ IF deployment = "worker" THEN task[id].pc = "done"
     ELSE Len(task[id].timers) > 0

\* C36: every record put into the store is, then or later, broadcast as
\* 'newGraduate' to the registered subscribers.
C36_InsertIsBroadcast ==
  \A id \in 1..MaxLive :
    [](id \in InStore(graduatedTokens) => <>Announced(id))


(************************ calls that do not return ***************************)
\* records one behaviour creates, and handlers suspended at a time
MaxStall == 2

\* a lookup answer with a price and a market cap
FullAnswer ==
  [failed |-> FALSE,
   pairs |-> <<[dexId |-> "raydium", pairCreatedAt |-> 2, priceUsd |-> 3,
                marketCap |-> 7, symbol |-> 4, volume |-> 5]>>]

\* Both pipelines with a subscriber.  No step has to be taken: a call that
\* is slow or never returns is a handler or a timer callback that stays
\* suspended while the other steps go on.
NextStall ==
  \/ SrvListen
  \/ SrvOpen
  \/ SrvOnMessage(BurstMessage, MaxStall, MaxStall)
  \/ \E i \in 1..MaxStall : SrvAfterMetadata(i, NoAnswer)
  \/ \E id \in 1..MaxStall : SrvEnhance(id, FullAnswer)
  \/ \E id \in 1..MaxStall : SrvTelegram(id, "sent")
  \/ MoralisSubscribe(1)
  \/ WrkRequest("subscribe")
  \/ \E s \in SockIds : WrkOpen(s)
  \/ \E s \in SockIds : WrkOnMessage(s, BurstMessage, MaxStall, MaxStall)
  \/ \E i \in 1..MaxStall : WrkAfterEnrich(i, FullAnswer, TRUE)
  \/ \E id \in 1..MaxStall : WrkAfterTelegram(id, "sent")

SpecStall == InitFanout /\ [][NextStall]_vars

\* C37: whatever calls are pending for other records, the feed's next
\* graduation is accepted and every suspended handler and every timer
\* callback can go on as soon as its own call answers: none waits for the
\* call of another record.
C37_NoStall ==
  /\ deployment = "worker" =>
       /\ \A s \in SockIds :
            (sockets[s].st = "open" /\ Len(objs) + Len(awaiting) < MaxStall)
              => ENABLED (/\ WrkOnMessage(s, BurstMessage, MaxStall, MaxStall)
                          /\ Len(awaiting') = Len(awaiting) + 1)
       /\ \A i \in 1..Len(awaiting) : ENABLED WrkAfterEnrich(i, FullAnswer, TRUE)
       /\ \A id \in 1..Len(task) :
            task[id].pc = "telegram" => ENABLED WrkAfterTelegram(id, "sent")
  /\ deployment = "server" =>
       /\ (pumpPortalWs.st = "open" /\ Len(objs) + Len(awaiting) < MaxStall)
            => ENABLED (/\ SrvOnMessage(BurstMessage, MaxStall, MaxStall)
                        /\ Len(awaiting') = Len(awaiting) + 1)
       /\ \A i \in 1..Len(awaiting) : ENABLED SrvAfterMetadata(i, NoAnswer)
       /\ \A id \in 1..Len(task) :
            /\ task[id].pc = "wait8" => ENABLED SrvEnhance(id, FullAnswer)
            /\ (notified[id] > 0 /\ task[id].sink = "none")
                 => ENABLED SrvTelegram(id, "sent")

\* in the Durable Object the lookup made for the graduation of mint 1 has
\* not answered; the graduation of mint 2, which came after it, has been
\* stored, enriched, notified and broadcast to the subscriber
C37_Witness ==
  /\ deployment = "worker"
  /\ Len(awaiting) = 1 /\ awaiting[1].mint = 1
  /\ Len(objs) = 1 /\ objs[1].mint = 2
  /\ graduatedTokens = <<1>> /\ storage = <<1>>
  /\ objs[1].priceUsdCurrent = 3 /\ objs[1].marketCap = 7
  /\ notified[1] = 1 /\ task[1].sink = "sent" /\ task[1].pc = "done"
  /\ 1 \in sseClients /\ clients[1].last = "newGraduate"


\* the socket opens in this step
Opens == pumpPortalWs.st = "connecting" /\ pumpPortalWs'.st = "open"

\* a socket that had opened closes in this step
ClosesAfterOpen ==
  /\ pumpPortalWs.subscribes # <<>>
  /\ pumpPortalWs.st \in {"open", "errored"}
  /\ pumpPortalWs'.st = "closed"

\* C38: the server's reconnect attempt counter is always within 0..5; every
\* open sets it to 0; and the close of a socket that had opened makes it 1
\* and schedules the reconnect after the base delay of 2 s, whatever the
\* counter was before that open.
C38_CounterResetOnOpen ==
  /\ [](pumpPortalReconnectAttempts \in 0..MAX_RECONNECT_ATTEMPTS)
  /\ [][/\ Opens => pumpPortalReconnectAttempts' = 0
        /\ ClosesAfterOpen =>
             /\ pumpPortalReconnectAttempts' = 1
             /\ reconnectTimer' = 2
             /\ scheduledDelays' = <<2>>
       ]_vars

\* a socket that had opened has closed and the reconnect is due in 2 s
C38_Witness ==
  /\ deployment = "server"
  /\ pumpPortalWs.st = "closed" /\ pumpPortalWs.subscribes # <<>>
  /\ pumpPortalReconnectAttempts = 1
  /\ reconnectTimer = 2


\* C39: the graduatedAt of a record is the one it was created with: no step
\* changes it.
C39_GraduatedAtFixed ==
  [][\A id \in 1..Len(objs) : objs'[id].graduatedAt = objs[id].graduatedAt]_vars


(******************** broadcasts of records that have left *******************)
\* records the server creates in one behaviour: one more than the store keeps
MaxEvict == 101

\* The server ingests a burst that fills the store while the chain of the
\* first record waits for its 8 s timer; the Durable Object takes bulk
\* replaces while a handler is suspended at its notification.
NextEvict ==
  \/ SrvListen
  \/ SrvOpen
  \/ SrvOnMessage(BurstMessage, MaxEvict, 1)
  \/ SrvAfterMetadata(1, NoAnswer)
  \/ SrvEnhance(1, FullAnswer)
  \/ WrkRequest("update")
  \/ \E s \in SockIds : WrkOpen(s)
  \/ \E s \in SockIds : WrkOnMessage(s, BurstMessage, MaxGraduates, 1)
  \/ WrkAfterEnrich(1, NoAnswer, TRUE)
  \/ \E id \in 1..MaxGraduates : WrkAfterTelegram(id, "sent")

SpecEvict == InitFanout /\ [][NextEvict]_vars

\* record id is broadcast as 'newGraduate' in this step: by the server with
\* an update of the record, by the Durable Object at the end of its handler
Rebroadcast(id) ==
  \/ deployment = "server" /\ objs'[id] # objs[id]
  \/ deployment = "worker" /\ task[id].pc = "telegram" /\ task'[id].pc = "done"

\* C40: a record that is broadcast is in the store at that moment.
C40_BroadcastOnlyStored ==
  [][\A id \in 1..Len(objs) :
       Rebroadcast(id) => id \in InStore(graduatedTokens')]_vars

=============================================================================
